---- MODULE Spec2Model ----
(***************************************************************************)
(* A model of the compressed ADDER codec of adder-codec-rs:                *)
(*   - the block prediction model (blocks/prediction.rs): forward intra    *)
(*     and inter prediction on the encoder, inverse inter prediction on    *)
(*     the decoder, with the sparam quantisation of the delta-t residuals; *)
(*   - the ADU serialisation (adu/frame.rs): Adu and AduChannel compress   *)
(*     and decompress, over a stream of context-tagged symbols;            *)
(*   - the stream framing (stream.rs): CompressedOutput::ingest_event,     *)
(*     CompressedInput::digest_event and set_input_stream_position over a  *)
(*     byte stream.                                                        *)
(* and of its transcoder:                                                  *)
(*   - the pixel event-generation model (transcoder/event_pixel_tree.rs):  *)
(*     PixelArena integrate, pop_top_event, pop_best_events and            *)
(*     set_d_for_continuous;                                               *)
(*   - the block intra context model (adder-codec-rs compression.rs):      *)
(*     encode_block and decode_block over residual symbols.                *)
(* The specifications share the variables: SpecPred drives the prediction  *)
(* model (variable pm), SpecAdu the ADU serialisation (variable ad), Spec  *)
(* the stream framing (variable st), SpecPixel the pixel model (variable   *)
(* px), SpecBlock the block intra context model (variable cm).             *)
(* SpecPredict runs the delta-t prediction of encoder and decoder on its   *)
(* own and SpecForward the two forward predictions on wider blocks, both   *)
(* in the variable pm.  SpecSeek (seeking) and SpecIngest (ingest_event    *)
(* with a compression that may fail) use the variable st.  SpecPixelLit    *)
(* (lit samples and set_d_for_continuous), SpecWork (intensity accounting  *)
(* over pop_best_events) and SpecDtm (a pixel popped at delta_t_max) use   *)
(* the variable px.                                                        *)
(***************************************************************************)
EXTENDS Integers, Sequences, FiniteSets, TLC

VARIABLES pm, ad, st, px, cm

vars == <<pm, ad, st, px, cm>>

(***************************************************************************)
(* Integer helpers: the machine arithmetic the code relies on.             *)
(***************************************************************************)

RECURSIVE Pow2(_)
Pow2(n) == IF n <= 0 THEN 1 ELSE 2 * Pow2(n - 1)

\* Number of significant bits of a non-negative integer.
RECURSIVE BitLen(_)
BitLen(x) == IF x <= 0 THEN 0 ELSE 1 + BitLen(x \div 2)

\* i64::leading_zeros of a non-negative value.
leading_zeros(x) == 64 - BitLen(x)

Abs(x) == IF x < 0 THEN -x ELSE x

\* x >> s on a signed integer: arithmetic shift, rounds toward minus infinity.
Shr(x, s) == x \div Pow2(s)

\* x << s without loss (the model's values stay far below the type's width).
Shl(x, s) == x * Pow2(s)

\* `as i16`: keeps the low 16 bits, reinterpreted as signed.
AsI16(x) == ((x + 32768) % 65536) - 32768

\* `as u8` (the cast to D).
AsU8(x) == x % 256

Max(a, b) == IF a > b THEN a ELSE b

\* The function f with its values tabulated (the same function).
Tabulated(f) == f @@ <<>>


(***************************************************************************)
(* Bounds of the model.                                                    *)
(***************************************************************************)

\* Side of a block in pixels (16 in the program); a block holds
\* BLOCK_SIZE * BLOCK_SIZE pixels in row-major order.
BLOCK_SIZE == 2

BLOCK_SIZE_AREA == BLOCK_SIZE * BLOCK_SIZE

\* Number of inter blocks coded after the intra block of a cube.
MaxInterBlocks == 3

\* dtm of the prediction runs, in reference intervals.
DtmIntervals == 300

BlockIdx == 0 .. (BLOCK_SIZE_AREA - 1)

(***************************************************************************)
(* Block prediction model (blocks/prediction.rs).                          *)
(***************************************************************************)

\* Sentinel d-residual of a pixel without an event in the block.
D_ENCODE_NO_EVENT == 32767

\* Reference interval of the prediction runs (the tests' dt_ref).
dt_ref == 255

dtm == dt_ref * DtmIntervals

FramePerfect == "FramePerfect"
Continuous == "Continuous"

\* Option<EventCoordless>: None, or Some { d, delta_t }.
None == [some |-> FALSE, d |-> 0, delta_t |-> 0]
Some(d, t) == [some |-> TRUE, d |-> d, delta_t |-> t]

\* EventCoordless::default()
EventCoordlessDefault == [d |-> 0, delta_t |-> 0]

D_RESIDUALS_EMPTY == [i \in BlockIdx |-> D_ENCODE_NO_EVENT]

\* The FramePerfect rounding of a stored time up to a multiple of dt_ref.
RoundUpRef(mode, t, ref) ==
    IF mode = FramePerfect /\ t % ref # 0 THEN ((t \div ref) + 1) * ref ELSE t

PredictionModel_new(mode) ==
    [ t_memory |-> [i \in BlockIdx |-> 0],
      event_memory |-> [i \in BlockIdx |-> EventCoordlessDefault],
      t_recon |-> [i \in BlockIdx |-> 0],
      d_residuals |-> D_RESIDUALS_EMPTY,
      dt_pred_residuals |-> [i \in BlockIdx |-> 0],
      dt_pred_residuals_i16 |-> [i \in BlockIdx |-> 0],
      time_modulation_mode |-> mode ]

override_memory(m, event_memory, t_recon) ==
    [m EXCEPT !.event_memory = event_memory, !.t_recon = t_recon]

reset_memory(m) ==
    [m EXCEPT !.t_memory = [i \in BlockIdx |-> 0],
              !.event_memory = [i \in BlockIdx |-> EventCoordlessDefault],
              !.t_recon = [i \in BlockIdx |-> 0]]

\* reset_residuals that leaves the d residuals of the block before.
reset_residuals_keep_d(m) ==
    [m EXCEPT !.dt_pred_residuals = [i \in BlockIdx |-> 0],
              !.dt_pred_residuals_i16 = [i \in BlockIdx |-> 0]]

reset_residuals(m) ==
    [m EXCEPT !.d_residuals = D_RESIDUALS_EMPTY,
              !.dt_pred_residuals = [i \in BlockIdx |-> 0],
              !.dt_pred_residuals_i16 = [i \in BlockIdx |-> 0]]

d_residual(d0, d1) == d1 - d0

\* predict_delta_t without the fall back to the stored delta_t.
predict_delta_t_no_fallback(mem_delta_t, d_resid, dtm_) ==
    IF d_resid > 0
    THEN (IF d_resid < 8 THEN Shl(mem_delta_t, d_resid) ELSE mem_delta_t)
    ELSE (IF d_resid > -8 THEN Shr(mem_delta_t, -d_resid) ELSE mem_delta_t)

\* predict_delta_t reads only the delta_t of the event memory.
predict_delta_t(mem_delta_t, d_resid, dtm_) ==
    LET dt_pred == IF d_resid > 0
                   THEN (IF d_resid < 8 THEN Shl(mem_delta_t, d_resid) ELSE mem_delta_t)
                   ELSE (IF d_resid > -8 THEN Shr(mem_delta_t, -d_resid) ELSE mem_delta_t)
    IN IF dt_pred > dtm_ THEN mem_delta_t ELSE dt_pred

\* ChooseSparam that shifts one place further than needed.
ChooseSparam_one_more(sparam, max_t_resid) ==
    LET num_places == leading_zeros(max_t_resid)
    IN IF num_places + sparam < 50 /\ max_t_resid > 0 THEN 50 - num_places ELSE sparam

\* The sparam both forward predictions choose from the largest residual.
ChooseSparam(sparam, max_t_resid) ==
    LET num_places == leading_zeros(max_t_resid)
    IN IF num_places + sparam < 49 /\ max_t_resid > 0 THEN 49 - num_places ELSE sparam

\* The largest value of a function over the block.
RECURSIVE MaxOver(_, _)
MaxOver(f, n) == IF n = 0 THEN 0 ELSE Max(f[n - 1], MaxOver(f, n - 1))

Populated(events) == {i \in BlockIdx : events[i].some}

\* The last populated pixel instead of the first.
FirstPopulated_last(events) == CHOOSE i \in Populated(events) : \A j \in Populated(events) : i >= j

FirstPopulated(events) == CHOOSE i \in Populated(events) : \A j \in Populated(events) : i <= j

\* forward_intra_prediction: the first populated pixel is the head (start),
\* every later populated pixel gets residuals against the head.
forward_intra_prediction(m0, sparam, dt_ref_, dtm_, events) ==
    LET m == reset_memory(reset_residuals(m0))
        mode == m.time_modulation_mode
        pop == Populated(events)
        init == pop # {}
        first == IF init THEN FirstPopulated(events) ELSE 0
        start == IF init THEN [d |-> events[first].d, delta_t |-> events[first].delta_t]
                 ELSE EventCoordlessDefault
        later(i) == events[i].some /\ init /\ i > first
        d_res == Tabulated([i \in BlockIdx |->
                    IF later(i) THEN events[i].d - start.d ELSE m.d_residuals[i]])
        t_res == Tabulated([i \in BlockIdx |->
                    IF later(i) THEN events[i].delta_t - start.delta_t
                    ELSE m.dt_pred_residuals[i]])
        t_mem == Tabulated([i \in BlockIdx |->
                    IF events[i].some THEN RoundUpRef(mode, events[i].delta_t, dt_ref_) ELSE 0])
        max_t_resid == MaxOver([i \in BlockIdx |-> Abs(t_res[i])], BLOCK_SIZE_AREA)
        sp == ChooseSparam(sparam, max_t_resid)
        r16 == Tabulated([i \in BlockIdx |-> AsI16(Shr(t_res[i], sp))])
    IN [ m |-> [m EXCEPT !.t_memory = t_mem, !.t_recon = t_mem,
                         !.d_residuals = d_res, !.dt_pred_residuals = t_res,
                         !.dt_pred_residuals_i16 = r16],
         ok |-> \A i \in BlockIdx : Shr(t_res[i], sp) <= 32767,
         head_t |-> start.delta_t,
         head_d |-> start.d,
         sparam |-> sp ]

\* update_values_from_prediction without its assertion.
update_values_from_prediction_noassert(mem_delta_t, t_recon, dt_pred, dt_pred_residual, dtm_) ==
    LET recon_t == t_recon + dt_pred + dt_pred_residual
        delta_t == recon_t - t_recon
    IN [ delta_t |-> delta_t,
         t_recon |-> recon_t,
         ok |-> TRUE ]

\* update_values_from_prediction: the reconstructed time and delta-t of one
\* pixel.  ok is the assertion event_memory.delta_t <= dtm; a negative value
\* stands for the wrapped unsigned one (2^32 + value), which exceeds dtm.
update_values_from_prediction(mem_delta_t, t_recon, dt_pred, dt_pred_residual, dtm_) ==
    LET recon_t == t_recon + dt_pred + dt_pred_residual
        delta_t == recon_t - t_recon
    IN [ delta_t |-> delta_t,
         t_recon |-> recon_t,
         ok |-> recon_t >= 0 /\ delta_t >= 0 /\ delta_t <= dtm_ ]

\* reconstruct_t_values that leaves t_recon as reconstructed, not rounded up
\* to the reference interval.
reconstruct_t_values_unrounded(m, sparam, dtm_, dt_ref_) ==
    LET coded(i) == m.d_residuals[i] # D_ENCODE_NO_EVENT
        upd(i) == update_values_from_prediction(
                      m.event_memory[i].delta_t,
                      m.t_recon[i],
                      predict_delta_t(m.event_memory[i].delta_t, m.d_residuals[i], dtm_),
                      Shl(m.dt_pred_residuals_i16[i], sparam),
                      dtm_)
    IN [ m |-> [m EXCEPT
                  !.event_memory = [i \in BlockIdx |->
                      IF coded(i) THEN [@[i] EXCEPT !.delta_t = upd(i).delta_t] ELSE @[i]],
                  !.t_recon = [i \in BlockIdx |->
                      IF coded(i) THEN upd(i).t_recon ELSE @[i]]],
         ok |-> \A i \in BlockIdx : coded(i) => upd(i).ok ]

\* reconstruct_t_values: the encoder replays the decoder's reconstruction.
reconstruct_t_values(m, sparam, dtm_, dt_ref_) ==
    LET mode == m.time_modulation_mode
        coded(i) == m.d_residuals[i] # D_ENCODE_NO_EVENT
        upd(i) == update_values_from_prediction(
                      m.event_memory[i].delta_t,
                      m.t_recon[i],
                      predict_delta_t(m.event_memory[i].delta_t, m.d_residuals[i], dtm_),
                      Shl(m.dt_pred_residuals_i16[i], sparam),
                      dtm_)
    IN [ m |-> [m EXCEPT
                  !.event_memory = [i \in BlockIdx |->
                      IF coded(i) THEN [@[i] EXCEPT !.delta_t = upd(i).delta_t] ELSE @[i]],
                  !.t_recon = [i \in BlockIdx |->
                      IF coded(i) THEN RoundUpRef(mode, upd(i).t_recon, dt_ref_) ELSE @[i]]],
         ok |-> \A i \in BlockIdx : coded(i) => upd(i).ok ]

\* forward_inter_prediction: residuals of a block against the event memory,
\* quantised by the sparam chosen for the block, then the reconstruction.
\* ok is the conjunction of the function's assertions (a failed one panics).
forward_inter_prediction(m0, sparam, dtm_, dt_ref_, events) ==
    LET m == reset_residuals(m0)
        mode == m.time_modulation_mode
        d_res == Tabulated([i \in BlockIdx |->
                    IF events[i].some THEN d_residual(m.event_memory[i].d, events[i].d)
                    ELSE m.d_residuals[i]])
        delta_t == Tabulated([i \in BlockIdx |->
                    IF events[i].some THEN events[i].delta_t - m.t_memory[i] ELSE 0])
        t_res == Tabulated([i \in BlockIdx |->
                    IF events[i].some
                    THEN delta_t[i] - predict_delta_t(m.event_memory[i].delta_t, d_res[i], dtm_)
                    ELSE m.dt_pred_residuals[i]])
        max_t_resid == MaxOver([i \in BlockIdx |-> Abs(t_res[i])], BLOCK_SIZE_AREA)
        sp == ChooseSparam(sparam, max_t_resid)
        m1 == [m EXCEPT
                 !.event_memory = [i \in BlockIdx |->
                     IF events[i].some THEN [@[i] EXCEPT !.d = events[i].d] ELSE @[i]],
                 !.t_memory = [i \in BlockIdx |->
                     IF events[i].some THEN RoundUpRef(mode, events[i].delta_t, dt_ref_)
                     ELSE @[i]],
                 !.d_residuals = d_res,
                 !.dt_pred_residuals = t_res,
                 !.dt_pred_residuals_i16 = [i \in BlockIdx |-> AsI16(Shr(t_res[i], sp))]]
        rec == reconstruct_t_values(m1, sp, dtm_, dt_ref_)
    IN [ m |-> rec.m,
         ok |-> /\ \A i \in Populated(events) :
                     /\ delta_t[i] >= 0
                     /\ delta_t[i] <= dtm_
                     /\ Abs(t_res[i]) <= dtm_
                     /\ Abs(t_res[i]) < 100000000
                /\ rec.ok,
         sparam |-> sp ]

\* inverse_inter_prediction: the decoder rebuilds the events of a block from
\* the residuals stored in its model.  ok is FALSE when an unsigned value
\* would wrap (a panic in a debug build, a wrapped time in a release build).
inverse_inter_prediction(m, sparam, dtm_, dt_ref_) ==
    LET mode == m.time_modulation_mode
        coded(i) == m.d_residuals[i] # D_ENCODE_NO_EVENT
        d(i) == AsU8(m.event_memory[i].d + m.d_residuals[i])
        d_resid(i) == m.d_residuals[i]
        mem_dt(i) == m.event_memory[i].delta_t
        dt_pred0(i) == IF d_resid(i) > 0
                       THEN (IF d_resid(i) < 8 THEN Shl(mem_dt(i), d_resid(i)) ELSE mem_dt(i))
                       ELSE (IF d_resid(i) > -8 THEN Shr(mem_dt(i), -d_resid(i)) ELSE mem_dt(i))
        dt_pred(i) == IF dt_pred0(i) > dtm_ THEN mem_dt(i) ELSE dt_pred0(i)
        recon_t(i) == m.t_recon[i] + dt_pred(i) + Shl(m.dt_pred_residuals_i16[i], sparam)
    IN [ m |-> [m EXCEPT
                  !.event_memory = [i \in BlockIdx |->
                      IF coded(i) THEN [d |-> d(i), delta_t |-> recon_t(i) - m.t_recon[i]]
                      ELSE @[i]],
                  !.t_recon = [i \in BlockIdx |->
                      IF coded(i) THEN RoundUpRef(mode, recon_t(i), dt_ref_) ELSE @[i]]],
         events |-> [i \in BlockIdx |-> IF coded(i) THEN Some(d(i), recon_t(i)) ELSE None],
         ok |-> \A i \in BlockIdx : coded(i) => recon_t(i) >= m.t_recon[i] /\ recon_t(i) >= 0 ]

(***************************************************************************)
(* SpecPred: one cube's prediction, encoder and decoder side by side.      *)
(* The encoder codes an intra block, the decoder takes over the encoder's  *)
(* memory (override_memory), then every inter block the encoder emits is   *)
(* handed to the decoder.                                                  *)
(***************************************************************************)

Modes == {FramePerfect, Continuous}

\* Pixels of the block that receive events.
PredPixels == {1, 2}

\* (d, delta-t) of the events offered to a pixel; in FramePerfect mode the
\* times are multiples of the reference interval.
EventChoices(mode) ==
    IF mode = FramePerfect
    THEN {<<1, dt_ref>>, <<1, dt_ref * 261>>, <<2, dt_ref>>}
    ELSE {<<1, 1>>, <<1, dt_ref>>, <<1, dt_ref * 261>>, <<2, dt_ref>>}

\* (d, t) of the events offered to a pixel of the intra block.
IntraChoices == {<<1, dt_ref>>, <<2, dt_ref * 2>>}

\* The sparam handed to the forward predictions.
SparamIn == 0

\* "no event" among the choices offered to a pixel.
NoChoice == <<0, 0>>

\* The block in which pixel i of PredPixels holds the event chosen by f[i],
\* f[i][2] ticks after base[i], and every other pixel holds nothing.
BlockOf(f, base) ==
    [i \in BlockIdx |->
        IF i \in PredPixels /\ f[i] # NoChoice
        THEN Some(f[i][1], base[i] + f[i][2])
        ELSE None]

NoBlock == [i \in BlockIdx |-> None]

PmIdle == [ status |-> "off", mode |-> Continuous,
            enc |-> PredictionModel_new(Continuous),
            dec |-> PredictionModel_new(Continuous),
            events |-> NoBlock, decoded |-> NoBlock,
            sparam |-> 0, n |-> 0 ]

PredInit ==
    /\ \E mode \in Modes :
          pm = [ PmIdle EXCEPT !.status = "new", !.mode = mode,
                               !.enc = PredictionModel_new(mode),
                               !.dec = PredictionModel_new(mode) ]
    /\ ad = "off"
    /\ st = "off"
    /\ px = "off"
    /\ cm = "off"

\* The intra block of the cube: forward_intra_prediction on the encoder; the
\* decoder's memory is set from the encoder's.
PredIntra ==
    /\ pm.status = "new"
    /\ \E f \in [PredPixels -> IntraChoices \cup {NoChoice}] :
          /\ \E i \in PredPixels : f[i] # NoChoice
          /\ \E events \in {BlockOf(f, [i \in BlockIdx |-> 0])} :
             \E r \in {forward_intra_prediction(pm.enc, SparamIn, dt_ref, dtm, events)} :
                pm' = [pm EXCEPT
                         !.status = IF r.ok THEN "intra" ELSE "panic",
                         !.enc = r.m,
                         !.dec = override_memory(@, r.m.event_memory, r.m.t_recon),
                         !.events = events,
                         !.decoded = events,
                         !.sparam = r.sparam]
    /\ UNCHANGED <<ad, st, px, cm>>

\* An inter block: forward_inter_prediction on the encoder; when it returns,
\* the decoder receives the residuals and sparam and runs
\* inverse_inter_prediction.
PredInter ==
    /\ pm.status \in {"intra", "inter"}
    /\ pm.n < MaxInterBlocks
    /\ \E f \in [PredPixels -> EventChoices(pm.mode) \cup {NoChoice}] :
          \E events \in {BlockOf(f, pm.enc.t_memory)} :
          \E r \in {forward_inter_prediction(pm.enc, SparamIn, dtm, dt_ref, events)} :
          \E q \in {inverse_inter_prediction(
                       [pm.dec EXCEPT !.d_residuals = r.m.d_residuals,
                                      !.dt_pred_residuals_i16 = r.m.dt_pred_residuals_i16],
                       r.sparam, dtm, dt_ref)} :
             IF r.ok
             THEN pm' = [pm EXCEPT !.status = IF q.ok THEN "inter" ELSE "wrapped",
                                   !.enc = r.m, !.dec = q.m,
                                   !.events = events, !.decoded = q.events,
                                   !.sparam = r.sparam, !.n = @ + 1]
             ELSE pm' = [pm EXCEPT !.status = "panic", !.events = events]
    /\ UNCHANGED <<ad, st, px, cm>>

PredNext == PredIntra \/ PredInter

SpecPred == PredInit /\ [][PredNext]_vars

(***************************************************************************)
(* ADU serialisation (adu/frame.rs).  The arithmetic coder is modelled as  *)
(* a sequence of symbols, each tagged with the context it was coded in; a  *)
(* symbol decodes correctly only in the context it was encoded in.         *)
(***************************************************************************)

u8_general_context == "u8_general_context"
d_context == "d_context"
dt_context == "dt_context"
eof_context == "eof_context"

\* encoder.encode(Some(&v), stream) in context ctx.
Sym(ctx, v) == [ctx |-> ctx, some |-> TRUE, v |-> v]

\* encoder.encode(None, stream) in eof_context: the end-of-sequence symbol.
EofSym == [ctx |-> eof_context, some |-> FALSE, v |-> 0]

\* u16::to_be_bytes / u16::from_be_bytes
u16_to_be_bytes(x) == << (x \div 256) % 256, x % 256 >>
u16_from_be_bytes(b) == b[1] * 256 + b[2]

\* u32::to_be_bytes / u32::from_be_bytes
u32_to_be_bytes(x) ==
    << (x \div 16777216) % 256, (x \div 65536) % 256, (x \div 256) % 256, x % 256 >>
u32_from_be_bytes(b) == b[1] * 16777216 + b[2] * 65536 + b[3] * 256 + b[4]

\* for byte in bytes { encoder.encode(Some(&(*byte as usize)), stream)? }
EncodeBytes(bytes) == [k \in 1 .. Len(bytes) |-> Sym(u8_general_context, bytes[k])]

\* The residual array f of a block, one symbol per pixel in context ctx.
EncodeArray(ctx, f) == [k \in 1 .. BLOCK_SIZE_AREA |-> Sym(ctx, f[k - 1])]

\* n calls of decoder.decode(stream).unwrap().unwrap() in context ctx from
\* position pos.  ok is FALSE when a symbol is missing, is the end-of-sequence
\* symbol, or was coded in another context (the coder is out of step).
DecodeN(syms, pos, ctx, n) ==
    [ ok |-> /\ pos + n - 1 <= Len(syms)
             /\ \A k \in pos .. (pos + n - 1) : syms[k].ctx = ctx /\ syms[k].some,
      vals |-> [k \in 1 .. n |->
                   IF pos + k - 1 <= Len(syms) THEN syms[pos + k - 1].v ELSE 0],
      pos |-> pos + n ]

\* An inter block of a cube, in the order of the compressed layout.
AduInterBlock_compress(b) ==
    EncodeBytes(<< b.shift_loss_param, b.sparam >>)
        \o EncodeArray(d_context, b.d_residuals)
        \o EncodeArray(dt_context, b.t_residuals)

\* Length in symbols of a compressed inter block and intra block.
InterBlockLen == 2 + 2 * BLOCK_SIZE_AREA
IntraBlockLen == 7 + 2 * BLOCK_SIZE_AREA

\* The inter block made of its decoded header h and residual arrays d, t.
InterBlockOf(h, d, t) ==
    [ block |-> [ shift_loss_param |-> h.vals[1], sparam |-> h.vals[2],
                  d_residuals |-> [i \in BlockIdx |-> d.vals[i + 1]],
                  t_residuals |-> [i \in BlockIdx |-> t.vals[i + 1]] ],
      pos |-> t.pos,
      ok |-> h.ok /\ d.ok /\ t.ok ]

AduInterBlock_decompress(syms, pos) ==
    InterBlockOf(DecodeN(syms, pos, u8_general_context, 2),
                 DecodeN(syms, pos + 2, d_context, BLOCK_SIZE_AREA),
                 DecodeN(syms, pos + 2 + BLOCK_SIZE_AREA, dt_context, BLOCK_SIZE_AREA))

\* The intra block of a cube: the head event, then the block.
AduIntraBlock_compress(b) ==
    EncodeBytes(<< b.head_event_d >>)
        \o EncodeBytes(u32_to_be_bytes(b.head_event_t))
        \o EncodeBytes(<< b.shift_loss_param, b.sparam >>)
        \o EncodeArray(d_context, b.d_residuals)
        \o EncodeArray(dt_context, b.dt_residuals)

\* The intra block made of its decoded header h and residual arrays d, t.
IntraBlockOf(h, d, t) ==
    [ block |-> [ head_event_d |-> h.vals[1],
                  head_event_t |-> u32_from_be_bytes(SubSeq(h.vals, 2, 5)),
                  shift_loss_param |-> h.vals[6], sparam |-> h.vals[7],
                  d_residuals |-> [i \in BlockIdx |-> d.vals[i + 1]],
                  dt_residuals |-> [i \in BlockIdx |-> t.vals[i + 1]] ],
      pos |-> t.pos,
      ok |-> h.ok /\ d.ok /\ t.ok ]

AduIntraBlock_decompress(syms, pos) ==
    IntraBlockOf(DecodeN(syms, pos, u8_general_context, 7),
                 DecodeN(syms, pos + 7, d_context, BLOCK_SIZE_AREA),
                 DecodeN(syms, pos + 7 + BLOCK_SIZE_AREA, dt_context, BLOCK_SIZE_AREA))

RECURSIVE CompressInterBlocks(_)
CompressInterBlocks(blocks) ==
    IF blocks = <<>> THEN <<>>
    ELSE AduInterBlock_compress(Head(blocks)) \o CompressInterBlocks(Tail(blocks))

\* n inter blocks read one after the other from pos (every inter block has
\* the same length).
DecompressInterBlocks(syms, pos, n) ==
    LET b(k) == AduInterBlock_decompress(syms, pos + (k - 1) * InterBlockLen)
    IN [ blocks |-> [k \in 1 .. n |-> b(k).block],
         pos |-> pos + n * InterBlockLen,
         ok |-> \A k \in 1 .. n : b(k).ok ]

\* AduCube: idx_y, idx_x, num_inter_blocks, the intra block, the inter blocks.
AduCube_compress(cube) ==
    EncodeBytes(u16_to_be_bytes(cube.idx_y))
        \o EncodeBytes(u16_to_be_bytes(cube.idx_x))
        \o EncodeBytes(u16_to_be_bytes(cube.num_inter_blocks))
        \o AduIntraBlock_compress(cube.intra_block)
        \o CompressInterBlocks(cube.inter_blocks)

\* The cube made of its decoded header h, intra block and inter blocks.
CubeOf(h, intra, inter) ==
    [ cube |-> [ idx_y |-> u16_from_be_bytes(SubSeq(h.vals, 1, 2)),
                 idx_x |-> u16_from_be_bytes(SubSeq(h.vals, 3, 4)),
                 intra_block |-> intra.block,
                 num_inter_blocks |-> u16_from_be_bytes(SubSeq(h.vals, 5, 6)),
                 inter_blocks |-> inter.blocks ],
      pos |-> inter.pos,
      ok |-> h.ok /\ intra.ok /\ inter.ok ]

\* The inter blocks follow the cube's header h and intra block; none is read
\* once the decoding has failed.
CubeAfterIntra(h, intra, syms) ==
    CubeOf(h, intra,
           DecompressInterBlocks(syms, intra.pos,
                                 IF h.ok /\ intra.ok
                                 THEN u16_from_be_bytes(SubSeq(h.vals, 5, 6)) ELSE 0))

AduCube_decompress(syms, pos) ==
    CubeAfterIntra(DecodeN(syms, pos, u8_general_context, 6),
                   AduIntraBlock_decompress(syms, pos + 6),
                   syms)

RECURSIVE CompressCubes(_)
CompressCubes(cubes) ==
    IF cubes = <<>> THEN <<>>
    ELSE AduCube_compress(Head(cubes)) \o CompressCubes(Tail(cubes))

ConsCubes(c, rest) ==
    [ cubes |-> <<c.cube>> \o rest.cubes, pos |-> rest.pos, ok |-> rest.ok ]

\* for _ in 0..num_cubes { cubes.push(AduCube::decompress(stream, input)) };
\* a failed read (an unwrap on a missing symbol) ends the decoding.
RECURSIVE DecompressCubes(_, _, _)
RECURSIVE CubesAfter(_, _, _)
DecompressCubes(syms, pos, n) ==
    IF n = 0 THEN [cubes |-> <<>>, pos |-> pos, ok |-> TRUE]
    ELSE CubesAfter(AduCube_decompress(syms, pos), syms, n)

\* The cubes read once cube c, the first of n, has been read.
CubesAfter(c, syms, n) ==
    IF ~c.ok THEN [cubes |-> <<>>, pos |-> c.pos, ok |-> FALSE]
    ELSE ConsCubes(c, DecompressCubes(syms, c.pos, n - 1))

AduChannel_new == [num_cubes |-> 0, cubes |-> <<>>]

\* AduChannel::compress: num_cubes as two big-endian bytes, then every cube.
AduChannel_compress(channel) ==
    EncodeBytes(u16_to_be_bytes(channel.num_cubes)) \o CompressCubes(channel.cubes)

\* The channel made of its decoded header h and cubes c.
ChannelOf(h, c) ==
    [ channel |-> [num_cubes |-> u16_from_be_bytes(h.vals), cubes |-> c.cubes],
      pos |-> c.pos,
      ok |-> h.ok /\ c.ok ]

ChannelAfterHeader(h, syms) ==
    ChannelOf(h, DecompressCubes(syms, h.pos,
                                 IF h.ok THEN u16_from_be_bytes(h.vals) ELSE 0))

\* AduChannel::decompress
AduChannel_decompress(syms, pos) ==
    ChannelAfterHeader(DecodeN(syms, pos, u8_general_context, 2), syms)

\* Adu::new
Adu_new == [ head_event_t |-> 0,
             cubes_r |-> AduChannel_new,
             cubes_g |-> AduChannel_new,
             cubes_b |-> AduChannel_new ]

AduChannelType == {"R", "G", "B"}

PushCube(channel, cube) ==
    [ num_cubes |-> channel.num_cubes + 1, cubes |-> Append(channel.cubes, cube) ]

\* Adu::add_cube
add_cube(adu, cube, channel) ==
    CASE channel = "R" -> [adu EXCEPT !.cubes_r = PushCube(@, cube)]
      [] channel = "G" -> [adu EXCEPT !.cubes_g = PushCube(@, cube)]
      [] channel = "B" -> [adu EXCEPT !.cubes_b = PushCube(@, cube)]

\* Adu::compress writing the channels in the order R, B, G.
Adu_compress_rbg(adu) ==
    EncodeBytes(u32_to_be_bytes(adu.head_event_t))
        \o AduChannel_compress(adu.cubes_r)
        \o AduChannel_compress(adu.cubes_b)
        \o AduChannel_compress(adu.cubes_g)

\* Adu::compress: head_event_t as four big-endian bytes, then the channels
\* R, G, B.
Adu_compress(adu) ==
    EncodeBytes(u32_to_be_bytes(adu.head_event_t))
        \o AduChannel_compress(adu.cubes_r)
        \o AduChannel_compress(adu.cubes_g)
        \o AduChannel_compress(adu.cubes_b)

\* The Adu made of its decoded head time h and channels r, g, b.
AduOf(h, r, g, b) ==
    [ adu |-> [ head_event_t |-> u32_from_be_bytes(h.vals),
                cubes_r |-> r.channel, cubes_g |-> g.channel, cubes_b |-> b.channel ],
      pos |-> b.pos,
      ok |-> h.ok /\ r.ok /\ g.ok /\ b.ok ]

\* A channel that is not read because the decoding has already failed.
NotRead(pos) == [channel |-> AduChannel_new, pos |-> pos, ok |-> FALSE]

ReadChannel(prev, syms) ==
    IF prev.ok THEN AduChannel_decompress(syms, prev.pos) ELSE NotRead(prev.pos)

\* Adu::decompress stopping after the G channel.
AduAfterG_two_channels(h, r, g, syms) ==
    AduOf(h, r, g, [g EXCEPT !.channel = AduChannel_new])

\* The B channel follows the G channel.
AduAfterG(h, r, g, syms) == AduOf(h, r, g, ReadChannel(g, syms))

AduAfterR(h, r, syms) == AduAfterG(h, r, ReadChannel(r, syms), syms)

AduAfterHead(h, syms) == AduAfterR(h, ReadChannel(h, syms), syms)

\* Adu::decompress: the head time, then the channels R, G, B.
Adu_decompress(syms, pos) ==
    AduAfterHead(DecodeN(syms, pos, u8_general_context, 4), syms)

\* The end of a compressed unit: the end-of-sequence symbol in eof_context
\* (the encoder is then flushed and byte-aligned).
WriteEof(syms) == Append(syms, EofSym)

\* The decoder switched to eof_context decodes one symbol at pos:
\* "None" for the end-of-sequence symbol, "Some" for anything else.
DecodeEofAt(syms, pos) ==
    IF pos <= Len(syms) /\ syms[pos].ctx = eof_context /\ ~syms[pos].some
    THEN "None" ELSE "Some"

(***************************************************************************)
(* Stream framing (stream.rs).  The byte stream is a sequence of cells: a  *)
(* raw byte written with write_bytes, or one cell for every symbol of an   *)
(* arithmetic-coded ADU payload.  EventAdu keeps the events of the current *)
(* ADU window; its payload lists the events in the order its decoder       *)
(* returns them, then the end-of-sequence symbol and the padding of the    *)
(* final flush, which the decoder does not read.                           *)
(***************************************************************************)

\* Number of reference intervals of an ADU (adu_interval).
NumIntervals == 2

\* Event { coord: Coord { x, y, c: None }, t, d }
Event(x, y, t, d) == [x |-> x, y |-> y, t |-> t, d |-> d]

\* A byte written to the stream with write_bytes.
RawByte(b) == [ctx |-> "raw", some |-> TRUE, v |-> b]

RawBytes(bytes) == [k \in 1 .. Len(bytes) |-> RawByte(bytes[k])]

\* The padding written when the coder of an ADU is flushed and byte-aligned.
FlushPad == << [ctx |-> "pad", some |-> TRUE, v |-> 0] >>

\* EventAdu::new(plane, start_t, dt_ref, num_intervals)
EventAdu_new(start_t, dt_ref_, num_intervals) ==
    [ start_t |-> start_t, dt_ref |-> dt_ref_, num_intervals |-> num_intervals,
      events |-> <<>>, queue |-> <<>> ]

\* EventAdu::ingest_event: the event joins the cube of its tile.
EventAdu_ingest_event(adu, event) == [adu EXCEPT !.events = Append(@, event)]

\* The tile (cube) of an event, and the row-major index of its pixel.
TileOf(e) == << e.y \div BLOCK_SIZE, e.x \div BLOCK_SIZE >>
RasterOf(e) == (e.y % BLOCK_SIZE) * BLOCK_SIZE + (e.x % BLOCK_SIZE)

\* Index of the first event of an event's tile: cubes are kept in the order
\* in which they were created.
CubeRank(events, i) ==
    CHOOSE j \in 1 .. i :
        /\ TileOf(events[j]) = TileOf(events[i])
        /\ \A k \in 1 .. (j - 1) : TileOf(events[k]) # TileOf(events[i])

\* Event i is returned before event j: cube by cube, pixel by pixel within
\* the cube, and for one pixel in the order of arrival.
Before(events, i, j) ==
    \/ CubeRank(events, i) < CubeRank(events, j)
    \/ /\ CubeRank(events, i) = CubeRank(events, j)
       /\ \/ RasterOf(events[i]) < RasterOf(events[j])
          \/ RasterOf(events[i]) = RasterOf(events[j]) /\ i < j

\* The events of an ADU in the order its decoder returns them.
QueueOrder(events) ==
    [ r \in 1 .. Len(events) |->
        events[CHOOSE i \in 1 .. Len(events) :
                  Cardinality({j \in 1 .. Len(events) : Before(events, j, i)}) = r - 1] ]

\* One event on the coder: x, y as two bytes each, d, t as four bytes.
EncodeEvent(e) ==
    EncodeBytes(u16_to_be_bytes(e.x)) \o EncodeBytes(u16_to_be_bytes(e.y))
        \o EncodeBytes(<< AsU8(e.d) >>) \o EncodeBytes(u32_to_be_bytes(e.t))

EventLen == 9

RECURSIVE EncodeEvents(_)
EncodeEvents(q) == IF q = <<>> THEN <<>> ELSE EncodeEvent(Head(q)) \o EncodeEvents(Tail(q))

\* EventAdu::compress: the payload of the ADU (the number of events, the
\* events, the end-of-sequence symbol, the flush).
EventAdu_payload(adu) ==
    EncodeBytes(u16_to_be_bytes(Len(adu.events)))
        \o EncodeEvents(QueueOrder(adu.events))
        \o <<EofSym>> \o FlushPad

\* EventAdu::compress also advances the window and resets the ADU.
EventAdu_reset(adu) ==
    [adu EXCEPT !.start_t = @ + adu.dt_ref * adu.num_intervals, !.events = <<>>]

\* The event decoded from the nine bytes v.
EventOf(v) ==
    Event(u16_from_be_bytes(SubSeq(v, 1, 2)), u16_from_be_bytes(SubSeq(v, 3, 4)),
          u32_from_be_bytes(SubSeq(v, 6, 9)), v[5])

\* EventAdu::decompress: the queue of events of a payload; pos is the
\* position in the payload after the last symbol the decoder read.
EventAdu_decoded(payload, h, n) ==
    [ events |-> [k \in 1 .. n |->
                    EventOf(DecodeN(payload, 3 + (k - 1) * EventLen,
                                    u8_general_context, EventLen).vals)],
      pos |-> 4 + n * EventLen,
      ok |-> /\ h.ok
             /\ \A k \in 1 .. n :
                   DecodeN(payload, 3 + (k - 1) * EventLen, u8_general_context, EventLen).ok
             /\ DecodeEofAt(payload, 3 + n * EventLen) = "None" ]

EventAdu_counted(payload, h) ==
    EventAdu_decoded(payload, h, IF h.ok THEN u16_from_be_bytes(h.vals) ELSE 0)

EventAdu_decompress(payload) ==
    EventAdu_counted(payload, DecodeN(payload, 1, u8_general_context, 2))

\* EventAdu::decoder_is_empty
decoder_is_empty(ci) == ci.queue = <<>>

\* A failed read reported as CodecError::Eof.
IoError_as_eof(kind) == [tag |-> "Eof", kind |-> kind]

\* CodecError::IoError(e), from the io::Error of a failed read.
IoError(kind) == [tag |-> "IoError", kind |-> kind]

Ok == [tag |-> "Ok", kind |-> ""]
NoResult == [tag |-> "none", kind |-> ""]
Panic == [tag |-> "Panic", kind |-> ""]

\* WindowExceeded with the boundary value counted as beyond the window.
WindowExceeded_inclusive(adu, event) ==
    event.t >= adu.start_t + (adu.dt_ref * adu.num_intervals)

\* Event t lies beyond the window of the ADU.
WindowExceeded(adu, event) ==
    event.t > adu.start_t + (adu.dt_ref * adu.num_intervals)

\* FrameOf with the length in little-endian byte order.
FrameOf_le(written_data) ==
    RawBytes(<< Len(written_data) % 256, (Len(written_data) \div 256) % 256,
                (Len(written_data) \div 65536) % 256,
                (Len(written_data) \div 16777216) % 256 >>) \o written_data

\* The length of the compressed ADU as four big-endian bytes, then the data.
FrameOf(written_data) ==
    RawBytes(u32_to_be_bytes(Len(written_data))) \o written_data

\* CompressedOutput::new
CompressedOutput_new(ref_interval, adu_interval) ==
    [ adu |-> EventAdu_new(0, ref_interval, adu_interval),
      stream_some |-> TRUE,
      out |-> <<>> ]

\* ingest_event that does not ingest the event that made it write the ADU.
ingest_event_drop(co, event) ==
    IF WindowExceeded(co.adu, event) /\ co.stream_some
    THEN [ co |-> [co EXCEPT !.out = @ \o FrameOf(EventAdu_payload(co.adu)),
                             !.adu = EventAdu_reset(@)],
           flushed |-> TRUE ]
    ELSE [ co |-> [co EXCEPT !.adu = EventAdu_ingest_event(@, event)],
           flushed |-> FALSE ]

\* CompressedOutput::ingest_event: flushed tells whether the ADU was
\* compressed and written.
ingest_event(co, event) ==
    IF WindowExceeded(co.adu, event) /\ co.stream_some
    THEN [ co |-> [co EXCEPT !.out = @ \o FrameOf(EventAdu_payload(co.adu)),
                             !.adu = EventAdu_ingest_event(EventAdu_reset(@), event)],
           flushed |-> TRUE ]
    ELSE [ co |-> [co EXCEPT !.adu = EventAdu_ingest_event(@, event)],
           flushed |-> FALSE ]

\* CompressedInput::new
CompressedInput_new ==
    [ adu_some |-> FALSE, queue |-> <<>>, pos |-> 1, nread |-> 0, consumed |-> 0,
      result |-> NoResult, event |-> Event(0, 0, 0, 0) ]

\* reader.read_bytes(&mut buffer) for the four bytes of the length.
ReadLen(inp, pos) ==
    [ ok |-> pos + 3 <= Len(inp),
      num_bytes |-> u32_from_be_bytes(
                       [k \in 1 .. 4 |-> IF pos + k - 1 <= Len(inp) THEN inp[pos + k - 1].v ELSE 0]) ]

\* AduRead with the reader left where the ADU decoder stopped reading.
AduRead_no_skip(ci, num_bytes, d) ==
    [ci EXCEPT !.pos = @ + 4 + (d.pos - 1), !.queue = d.events, !.nread = @ + 1,
               !.consumed = d.pos - 1,
               !.result = IF d.ok THEN NoResult ELSE Panic]

\* The reader once the ADU of num_bytes bytes has been read and decompressed
\* into d.
AduRead(ci, num_bytes, d) ==
    [ci EXCEPT !.pos = @ + 4 + num_bytes, !.queue = d.events, !.nread = @ + 1,
               !.consumed = d.pos - 1,
               !.result = IF d.ok THEN NoResult ELSE Panic]

\* The length h has been read: reader.read_to_vec(num_bytes), then the ADU is
\* decompressed from the bytes read.  A short read is an UnexpectedEof error.
ReadPayload(ci, inp, h) ==
    IF ~h.ok \/ ci.pos + 3 + h.num_bytes > Len(inp)
    THEN [ci EXCEPT !.result = IoError("UnexpectedEof")]
    ELSE AduRead(ci, h.num_bytes,
                 EventAdu_decompress(SubSeq(inp, ci.pos + 4, ci.pos + 3 + h.num_bytes)))

\* digest_event reading the next ADU on every call.
ShouldReadAdu_always(ci) == TRUE

\* The test of digest_event that makes it read the next ADU.
ShouldReadAdu(ci) == decoder_is_empty(ci)

\* CompressedInput::digest_event: the next ADU is read when the decoder is
\* empty; then the next event of the queue is returned, and on NoMoreEvents
\* digest_event is called again.
NoMoreEvents == [tag |-> "NoMoreEvents", kind |-> ""]

\* EventAdu::digest_event: the next event of the queue, or NoMoreEvents.
EventAdu_digest_event(ci) ==
    IF ci.queue = <<>>
    THEN [ci EXCEPT !.result = NoMoreEvents]
    ELSE [ci EXCEPT !.result = Ok, !.event = Head(ci.queue), !.queue = Tail(@)]

\* TryNextAdu that hands every result of the ADU to the caller.
TryNextAdu_never(r) == FALSE

\* The arm Err(CodecError::NoMoreEvents) of digest_event: the next ADU is
\* tried.
TryNextAdu(r) == r.result = NoMoreEvents

RECURSIVE digest_event(_, _)
RECURSIVE DigestQueue(_, _)
digest_event(ci, inp) ==
    DigestQueue(IF ShouldReadAdu(ci)
                THEN ReadPayload([ci EXCEPT !.adu_some = TRUE, !.result = NoResult],
                                 inp, ReadLen(inp, ci.pos))
                ELSE [ci EXCEPT !.result = NoResult],
                inp)

DigestQueue(ci, inp) ==
    IF ci.result # NoResult THEN ci
    ELSE IF TryNextAdu(EventAdu_digest_event(ci))
         THEN digest_event(ci, inp)
         ELSE EventAdu_digest_event(ci)

(***************************************************************************)
(* Properties of the prediction model (checked under SpecPred).            *)
(***************************************************************************)

\* Pixels coded in the block the decoder has just rebuilt.
CodedNow == {i \in BlockIdx : pm.events[i].some}

\* C2: for every event decoded from an inter block, the decoded time differs
\* from the input time by at most 2^sparam of that block, whatever the number
\* of inter blocks coded before it.
C2_BoundedDrift ==
    pm.status = "inter" =>
        \A i \in CodedNow :
            Abs(pm.decoded[i].delta_t - pm.events[i].delta_t) <= Pow2(pm.sparam)

\* C3: whenever forward_inter_prediction has emitted a block (from input whose
\* true delta-t is at most dtm), the delta-t inverse_inter_prediction stores in
\* event_memory for every coded pixel is at most dtm (and has not wrapped).
C3_DeltaTMaxRespected ==
    pm.status \in {"inter", "wrapped"} =>
        \A i \in CodedNow :
            /\ pm.dec.event_memory[i].delta_t >= 0
            /\ pm.dec.event_memory[i].delta_t <= dtm

\* A lossy inter block (sparam > 0) whose reconstruction differs from the
\* input has been emitted and decoded after an earlier inter block.
C3_Witness ==
    /\ pm.status = "inter"
    /\ pm.n >= 2
    /\ pm.sparam > 0
    /\ \E i \in CodedNow :
          /\ pm.decoded[i].delta_t # pm.events[i].delta_t
          /\ pm.dec.event_memory[i].delta_t > 0

\* C4: in FramePerfect mode the absolute time of every event returned by
\* inverse_inter_prediction is divisible by dt_ref.
C4_FrameAligned ==
    (pm.status = "inter" /\ pm.mode = FramePerfect) =>
        \A i \in CodedNow : pm.decoded[i].delta_t % dt_ref = 0

(***************************************************************************)
(* SpecAdu: an Adu is built cube by cube, compressed (alone, or only its R *)
(* channel, as the tests of frame.rs do), decompressed from the symbols,   *)
(* and the decoder then reads one symbol in eof_context.                   *)
(***************************************************************************)

\* Total number of cubes added to the Adu.
MaxCubes == 3

\* head_event_t values set on the Adu: bytes 01 02 03 04.
HeadChoices == {u32_from_be_bytes(<<1, 2, 3, 4>>)}

\* Residual arrays of the sample blocks.
NoEventArray == [i \in BlockIdx |-> D_ENCODE_NO_EVENT]
DArray == [i \in BlockIdx |-> IF i = 0 THEN D_ENCODE_NO_EVENT ELSE i - 2]
ZeroArray == [i \in BlockIdx |-> 0]
TArray == [i \in BlockIdx |-> IF i = 0 THEN 0 ELSE 16638 - 300 * i]

IntraA == [ head_event_d |-> 7, head_event_t |-> dt_ref, shift_loss_param |-> 0,
            sparam |-> 0, d_residuals |-> NoEventArray, dt_residuals |-> ZeroArray ]
IntraB == [ head_event_d |-> 1, head_event_t |-> dt_ref * 262, shift_loss_param |-> 1,
            sparam |-> 2, d_residuals |-> DArray, dt_residuals |-> TArray ]
InterA == [ shift_loss_param |-> 0, sparam |-> 2,
            d_residuals |-> DArray, t_residuals |-> TArray ]
InterB == [ shift_loss_param |-> 1, sparam |-> 0,
            d_residuals |-> NoEventArray, t_residuals |-> ZeroArray ]

\* AduCube::from_intra_block followed by add_inter_block for each inter block.
Cube(idx_y, idx_x, intra, inter) ==
    [ idx_y |-> idx_y, idx_x |-> idx_x, intra_block |-> intra,
      num_inter_blocks |-> Len(inter), inter_blocks |-> inter ]

CubeChoices ==
    { Cube(0, 0, IntraA, <<>>),
      Cube(258, 1, IntraB, <<InterA>>),
      Cube(1, 258, IntraA, <<InterB, InterA>>) }

AdIdle == [ status |-> "off", unit |-> "adu", adu |-> Adu_new, syms |-> <<>>,
            decoded |-> Adu_new, decoded_channel |-> AduChannel_new,
            pos |-> 1, eof |-> "none" ]

NumCubes(adu) == adu.cubes_r.num_cubes + adu.cubes_g.num_cubes + adu.cubes_b.num_cubes

AduInit ==
    /\ ad = [AdIdle EXCEPT !.status = "building"]
    /\ pm = PmIdle
    /\ st = "off"
    /\ px = "off"
    /\ cm = "off"

\* The head_event_t field of the Adu is assigned.
AduSetHead ==
    /\ ad.status = "building"
    /\ ad.adu.head_event_t = 0
    /\ \E t \in HeadChoices : ad' = [ad EXCEPT !.adu.head_event_t = t]
    /\ UNCHANGED <<pm, st, px, cm>>

AduAddCube ==
    /\ ad.status = "building"
    /\ NumCubes(ad.adu) < MaxCubes
    /\ \E cube \in CubeChoices, channel \in AduChannelType :
          ad' = [ad EXCEPT !.adu = add_cube(@, cube, channel)]
    /\ UNCHANGED <<pm, st, px, cm>>

\* The Adu is compressed and the coder finished.
AduCompress ==
    /\ ad.status = "building"
    /\ ad' = [ad EXCEPT !.status = "compressed", !.unit = "adu",
                        !.syms = WriteEof(Adu_compress(ad.adu))]
    /\ UNCHANGED <<pm, st, px, cm>>

\* The R channel alone is compressed and the coder finished.
ChannelCompress ==
    /\ ad.status = "building"
    /\ ad' = [ad EXCEPT !.status = "compressed", !.unit = "channel",
                        !.syms = WriteEof(AduChannel_compress(ad.adu.cubes_r))]
    /\ UNCHANGED <<pm, st, px, cm>>

AduDecompress ==
    /\ ad.status = "compressed"
    /\ ad.unit = "adu"
    /\ \E r \in {Adu_decompress(ad.syms, 1)} :
          ad' = [ad EXCEPT !.status = IF r.ok THEN "decoded" ELSE "panic",
                           !.decoded = r.adu, !.pos = r.pos]
    /\ UNCHANGED <<pm, st, px, cm>>

ChannelDecompress ==
    /\ ad.status = "compressed"
    /\ ad.unit = "channel"
    /\ \E r \in {AduChannel_decompress(ad.syms, 1)} :
          ad' = [ad EXCEPT !.status = IF r.ok THEN "decoded" ELSE "panic",
                           !.decoded_channel = r.channel, !.pos = r.pos]
    /\ UNCHANGED <<pm, st, px, cm>>

\* The decoder switches to eof_context and decodes the next symbol.
AduDecodeEof ==
    /\ ad.status = "decoded"
    /\ ad' = [ad EXCEPT !.status = "done", !.eof = DecodeEofAt(ad.syms, ad.pos)]
    /\ UNCHANGED <<pm, st, px, cm>>

AduNext ==
    \/ AduSetHead
    \/ AduAddCube
    \/ AduCompress
    \/ ChannelCompress
    \/ AduDecompress
    \/ ChannelDecompress
    \/ AduDecodeEof

SpecAdu == AduInit /\ [][AduNext]_vars

(***************************************************************************)
(* Properties of the ADU serialisation (checked under SpecAdu).            *)
(***************************************************************************)

\* C7: decompressing the symbols of a compressed Adu gives back the Adu
\* (head_event_t and, channel by channel, num_cubes and every field of every
\* cube), and decompressing the symbols of a compressed AduChannel gives
\* back the channel.
C7_AduRoundTrip ==
    /\ ad.status # "panic"
    /\ (ad.status \in {"decoded", "done"} /\ ad.unit = "adu") =>
           ad.decoded = ad.adu
    /\ (ad.status \in {"decoded", "done"} /\ ad.unit = "channel") =>
           ad.decoded_channel = ad.adu.cubes_r

\* An Adu with a head time, cubes in two channels and inter blocks has been
\* decompressed.
C7_Witness ==
    /\ ad.status = "decoded"
    /\ ad.unit = "adu"
    /\ ad.adu.head_event_t # 0
    /\ ad.adu.cubes_g.num_cubes >= 1
    /\ ad.adu.cubes_b.num_cubes >= 2
    /\ ad.adu.cubes_g.cubes[1] # ad.adu.cubes_b.cubes[1]
    /\ ad.adu.cubes_b.cubes[2].num_inter_blocks = 2
    /\ ad.decoded.cubes_b.cubes[2].inter_blocks = <<InterB, InterA>>

MaxEvents == 3

\* (x, y) of the pixels that receive events: two pixels of one tile, one of
\* another tile.
Pixels == {<<0, 0>>, <<1, 0>>, <<258, 0>>}

DChoices == {7, 8}

\* A timestamp of the first window, far in the past for every later ADU.
LateT == 280

\* Times offered to ingest_event: the last tick of the ADU's window, the
\* first tick after it, and the timestamp of the first window.
TChoices(adu) ==
    { adu.start_t + adu.dt_ref * adu.num_intervals,
      adu.start_t + adu.dt_ref * adu.num_intervals + 1,
      LateT }

StIdle == [ co |-> CompressedOutput_new(dt_ref, NumIntervals),
            ci |-> CompressedInput_new,
            inp |-> <<>>, input |-> <<>>, flushed |-> <<>>, payloads |-> <<>>,
            decoded |-> <<>> ]

Init ==
    /\ st = StIdle
    /\ pm = PmIdle
    /\ ad = AdIdle
    /\ px = "off"
    /\ cm = "off"

\* compressed_output.ingest_event(event)
Ingest ==
    /\ Len(st.input) < MaxEvents
    /\ st.ci.result = NoResult
    /\ \E p \in Pixels, d \in DChoices, t \in TChoices(st.co.adu) :
       \E r \in {ingest_event(st.co, Event(p[1], p[2], t, d))} :
          st' = [st EXCEPT
                   !.co = r.co,
                   !.input = Append(@, Event(p[1], p[2], t, d)),
                   !.flushed = IF r.flushed THEN Append(@, st.co.adu.events) ELSE @,
                   !.payloads = IF r.flushed
                                THEN Append(@, EventAdu_payload(st.co.adu)) ELSE @]
    /\ UNCHANGED <<pm, ad, px, cm>>

\* into_writer that first compresses and writes the ADU in progress.
IntoWriter_flushing ==
    /\ st.co.stream_some
    /\ st' = [st EXCEPT !.co.stream_some = FALSE,
                        !.inp = st.co.out \o FrameOf(EventAdu_payload(st.co.adu))]
    /\ UNCHANGED <<pm, ad, px, cm>>

\* compressed_output.into_writer(): the stream is taken; its bytes become the
\* input of the reader.
IntoWriter ==
    /\ st.co.stream_some
    /\ st' = [st EXCEPT !.co.stream_some = FALSE, !.inp = st.co.out]
    /\ UNCHANGED <<pm, ad, px, cm>>

\* compressed_input.digest_event(&mut stream), until it returns an error.
Digest ==
    /\ ~st.co.stream_some
    /\ st.ci.result.tag \in {"none", "Ok"}
    /\ \E ci \in {digest_event(st.ci, st.inp)} :
          st' = [st EXCEPT
                   !.ci = ci,
                   !.decoded = IF ci.result = Ok
                               THEN Append(@, [ev |-> ci.event, adu |-> ci.nread])
                               ELSE @]
    /\ UNCHANGED <<pm, ad, px, cm>>

Next ==
    \/ Ingest
    \/ IntoWriter
    \/ Digest

Spec == Init /\ [][Next]_vars

(***************************************************************************)
(* Properties of the stream framing (checked under Spec).                  *)
(***************************************************************************)

\* The d values of the events of pixel p in a sequence of events.
DsOf(events, p) ==
    LET mine == SelectSeq(events, LAMBDA e : e.x = p[1] /\ e.y = p[2])
    IN [k \in 1 .. Len(mine) |-> mine[k].d]

\* The (d, t) of the events of pixel p in a sequence of events.
DTsOf(events, p) ==
    LET mine == SelectSeq(events, LAMBDA e : e.x = p[1] /\ e.y = p[2])
    IN [k \in 1 .. Len(mine) |-> <<mine[k].d, mine[k].t>>]

IsPrefix(a, b) == Len(a) <= Len(b) /\ a = SubSeq(b, 1, Len(a))

DecodedEvents == [k \in 1 .. Len(st.decoded) |-> st.decoded[k].ev]

\* digest_event has returned an error: the whole stream has been read back.
ReadBack == st.ci.result.tag \notin {"none", "Ok"}

RECURSIVE FramesFrom(_, _)
FramesFrom(bytes, pos) ==
    IF pos > Len(bytes) THEN <<>>
    ELSE IF pos + 3 > Len(bytes) \/ \E k \in pos .. (pos + 3) : bytes[k].ctx # "raw"
         THEN << [ok |-> FALSE, payload |-> <<>>, end |-> pos] >>
         ELSE LET L == bytes[pos].v * 16777216 + bytes[pos + 1].v * 65536
                          + bytes[pos + 2].v * 256 + bytes[pos + 3].v
              IN IF pos + 3 + L > Len(bytes)
                 THEN << [ok |-> FALSE, payload |-> <<>>, end |-> pos] >>
                 ELSE << [ok |-> TRUE, payload |-> SubSeq(bytes, pos + 4, pos + 3 + L),
                          end |-> pos + 4 + L] >>
                      \o FramesFrom(bytes, pos + 4 + L)

\* C5: the output is at all times a concatenation of complete frames, a
\* 4-byte big-endian length L followed by the L bytes of one compressed ADU;
\* and after digest_event has read its k-th ADU the reader stands exactly
\* behind the k-th frame (4 + L bytes per ADU), although the ADU decoder read
\* fewer bytes of the payload.
C5_Framing ==
    LET frames == FramesFrom(st.co.out, 1)
        read == FramesFrom(st.inp, 1)
    IN /\ Len(frames) = Len(st.payloads)
       /\ \A k \in 1 .. Len(frames) :
             frames[k].ok /\ frames[k].payload = st.payloads[k]
       /\ st.ci.nread <= Len(read)
       /\ st.ci.result # Panic
       /\ st.ci.nread = 0 => st.ci.pos = 1
       /\ st.ci.nread > 0 =>
             /\ st.ci.pos = read[st.ci.nread].end
             /\ st.ci.consumed <= Len(read[st.ci.nread].payload)

\* Two ADUs were written and read, and the ADU decoder read fewer bytes than
\* the payload of the second holds.
C5_Witness ==
    /\ Len(st.payloads) = 2
    /\ st.ci.nread = 2
    /\ Len(st.payloads[1]) # Len(st.payloads[2])
    /\ st.ci.consumed < Len(st.payloads[2])
    /\ st.ci.pos = Len(st.inp) + 1

\* C6: a step writes bytes to the output only if it ingests an event whose t
\* is greater than start_t + dt_ref * num_intervals of the ADU, and as long
\* as no ingested event is later than the end of the first window (the
\* boundary value included) the output is empty.
C6_WritesOnlyPastWindow ==
    /\ [][ st'.co.out # st.co.out =>
             /\ Len(st'.input) = Len(st.input) + 1
             /\ st'.input[Len(st'.input)].t
                   > st.co.adu.start_t + st.co.adu.dt_ref * st.co.adu.num_intervals ]_vars
    /\ [] ( (\A k \in 1 .. Len(st.input) : st.input[k].t <= dt_ref * NumIntervals)
               => st.co.out = <<>> )

\* Events were ingested up to the boundary value and none later; nothing
\* was written.
C6_Witness ==
    /\ Len(st.input) = MaxEvents
    /\ \A k \in 1 .. Len(st.input) : st.input[k].t = dt_ref * NumIntervals
    /\ st.co.stream_some
    /\ st.co.out = <<>>

AdusWithEventsAhead ==
    {k \in (st.ci.nread + 1) .. Len(st.flushed) : st.flushed[k] # <<>>}

NextAduWithEvents == CHOOSE k \in AdusWithEventsAhead : \A j \in AdusWithEventsAhead : k <= j

\* C36: digest_event never returns NoMoreEvents and always returns: from a
\* queue that holds events it returns the first of them; from a drained
\* queue it reads the ADUs that follow, passes those without events, and
\* returns the first event of the first ADU that holds one; when no ADU with
\* events follows it has read every frame that was left and returns the
\* I/O error of the failed read.
C36_DigestReturns ==
    [][ st'.ci # st.ci =>
          /\ st'.ci.result.tag \in {"Ok", "IoError"}
          /\ st'.ci.nread >= st.ci.nread
          /\ st'.ci.nread <= Len(st.flushed)
          /\ st.ci.queue # <<>> =>
                /\ st'.ci.result = Ok
                /\ st'.ci.event = Head(st.ci.queue)
                /\ st'.ci.queue = Tail(st.ci.queue)
                /\ st'.ci.nread = st.ci.nread
          /\ (st.ci.queue = <<>> /\ AdusWithEventsAhead # {}) =>
                /\ st'.ci.result = Ok
                /\ st'.ci.nread = NextAduWithEvents
                /\ st'.ci.event = QueueOrder(st.flushed[NextAduWithEvents])[1]
                /\ st'.ci.queue = Tail(QueueOrder(st.flushed[NextAduWithEvents]))
          /\ (st.ci.queue = <<>> /\ AdusWithEventsAhead = {}) =>
                /\ st'.ci.result = IoError("UnexpectedEof")
                /\ st'.ci.nread = Len(st.flushed)
                /\ st'.ci.pos = Len(st.inp) + 1 ]_vars

\* One call of digest_event has read an ADU without events and then an ADU
\* with events, and has returned the first event of the second.
C36_Witness ==
    /\ Len(st.decoded) = 1
    /\ st.ci.result = Ok
    /\ st.ci.nread = 2
    /\ st.flushed[1] = <<>>
    /\ st.ci.event = QueueOrder(st.flushed[2])[1]

\* Number of decoded events read from ADU number k.
DecodedFrom(k) == Cardinality({i \in 1 .. Len(st.decoded) : st.decoded[i].adu = k})

RECURSIVE DigestAll(_, _)
RECURSIVE DigestRest(_, _)
DigestAll(ci, inp) == DigestRest(digest_event(ci, inp), inp)

DigestRest(ci, inp) ==
    IF ci.result = Ok THEN << ci.event >> \o DigestAll(ci, inp) ELSE <<>>

\* An ADU of a session of its own that ingested the given events.
RECURSIVE IngestAll(_, _)
IngestAll(adu, events) ==
    IF events = <<>> THEN adu
    ELSE IngestAll(EventAdu_ingest_event(adu, Head(events)), Tail(events))

\* The length-prefixed compressed ADU of that session.
EncodedAlone(events) ==
    FrameOf(EventAdu_payload(IngestAll(EventAdu_new(0, dt_ref, NumIntervals), events)))

\* The separately encoded ADUs, concatenated.
RECURSIVE Concatenated(_)
Concatenated(adus) ==
    IF adus = <<>> THEN <<>> ELSE EncodedAlone(Head(adus)) \o Concatenated(Tail(adus))

\* The events of the ADUs in the order their decoder returns them.
RECURSIVE QueuesOf(_)
QueuesOf(adus) ==
    IF adus = <<>> THEN <<>> ELSE QueueOrder(Head(adus)) \o QueuesOf(Tail(adus))

RECURSIVE WindowsExceeded(_, _)
WindowsExceeded(events, start_t) ==
    IF events = <<>> THEN 0
    ELSE IF Head(events).t > start_t + dt_ref * NumIntervals
         THEN 1 + WindowsExceeded(Tail(events), start_t + dt_ref * NumIntervals)
         ELSE WindowsExceeded(Tail(events), start_t)

\* C13: into_writer hands over the bytes written so far and compresses
\* nothing; until then the output holds one ADU for every ingested event that
\* exceeded the window, the events ingested since the last of them are in no ADU, and
\* once the stream has been read back fewer events were decoded than
\* ingested, no pixel getting more than it put in.
C13_InFlightAduLost ==
    /\ [][ (st.co.stream_some /\ ~st'.co.stream_some) =>
              /\ st'.inp = st.co.out
              /\ st'.co.out = st.co.out
              /\ st'.co.adu = st.co.adu ]_vars
    /\ [] ( /\ st.co.stream_some =>
                  Len(FramesFrom(st.co.out, 1)) = WindowsExceeded(st.input, 0)
            /\ Len(QueuesOf(st.flushed)) + Len(st.co.adu.events) = Len(st.input)
            /\ st.input # <<>> => st.input[Len(st.input)] = st.co.adu.events[Len(st.co.adu.events)]
            /\ ReadBack =>
                  /\ DecodedEvents = QueuesOf(st.flushed)
                  /\ st.input # <<>> => Len(st.decoded) < Len(st.input)
                  /\ \A p \in Pixels :
                        Len(DsOf(DecodedEvents, p)) <= Len(DsOf(st.input, p)) )

\* The writer was taken while the ADU in progress held two events; one ADU
\* had been written, and only its event was read back.
C13_Witness ==
    /\ ReadBack
    /\ Len(st.co.adu.events) = 2
    /\ Len(st.flushed) = 1
    /\ Len(st.decoded) = 1

\* The ADU whose window holds timestamp t (windows of dt_ref * num_intervals
\* ticks, the first starting at 0).
AduOfT(t) ==
    IF t <= dt_ref * NumIntervals THEN 1 ELSE ((t - 1) \div (dt_ref * NumIntervals)) + 1

InAdu(e, events) == \E i \in 1 .. Len(events) : events[i] = e

\* C14: the decoded times of every pixel are within 5 ticks of its input
\* times, and every ingested event is in the ADU its timestamp belongs to as
\* soon as that ADU is written, an event with a far-past timestamp included.
C14_LateEventInItsAdu ==
    /\ \A p \in Pixels :
          LET dec == DTsOf(DecodedEvents, p)
              inp == DTsOf(st.input, p)
          IN /\ Len(dec) <= Len(inp)
             /\ \A i \in 1 .. Len(dec) : Abs(dec[i][2] - inp[i][2]) <= 5
    /\ \A k \in 1 .. Len(st.input) :
          AduOfT(st.input[k].t) <= Len(st.flushed) =>
              InAdu(st.input[k], st.flushed[AduOfT(st.input[k].t)])

(***************************************************************************)
(* Further properties of the prediction model (checked under SpecPred).    *)
(***************************************************************************)

\* C12: every pixel coded in an inter block of the cube has emitted in an
\* earlier block of the cube (its t_memory is set), so that the first block
\* holding an event of a pixel is the intra block.
C12_FirstBlockIsIntra ==
    [][ pm'.status = "inter" =>
           \A i \in BlockIdx : pm'.events[i].some => pm.enc.t_memory[i] # 0 ]_vars

(***************************************************************************)
(* The pixel event-generation model (transcoder/event_pixel_tree.rs).      *)
(* Intensities and times are f32 and f64 values in the source; the model   *)
(* computes them as exact fractions <<numerator, denominator>> in lowest   *)
(* terms, the truncating casts to integers included.                       *)
(***************************************************************************)

RECURSIVE GCD(_, _)
GCD(a, b) == IF b = 0 THEN a ELSE GCD(b, a % b)

\* The fraction n / d, d > 0, in lowest terms.
Frac(n, d) == << n \div GCD(Abs(n), d), d \div GCD(Abs(n), d) >>

FZero == << 0, 1 >>
FInt(k) == << k, 1 >>

FAdd(x, y) ==
    Frac(x[1] * (y[2] \div GCD(x[2], y[2])) + y[1] * (x[2] \div GCD(x[2], y[2])),
         (x[2] \div GCD(x[2], y[2])) * y[2])

FSub(x, y) == FAdd(x, << 0 - y[1], y[2] >>)

FMul(x, y) ==
    Frac((x[1] \div GCD(Abs(x[1]), y[2])) * (y[1] \div GCD(Abs(y[1]), x[2])),
         (x[2] \div GCD(Abs(y[1]), x[2])) * (y[2] \div GCD(Abs(x[1]), y[2])))

\* x / y for y > 0.
FDiv(x, y) == FMul(x, << y[2], y[1] >>)

\* The cast of a non-negative value to an unsigned integer (truncation).
FTrunc(x) == x[1] \div x[2]

FIsZero(x) == x[1] = 0
FPos(x) == x[1] > 0
FGeInt(x, k) == x[1] >= k * x[2]
FGtInt(x, k) == x[1] > k * x[2]

\* The largest D; 127 in the source, scaled down with the intensities to the
\* range of the model's integers.
D_MAX == 10

D_ZERO_INTEGRATION == 254

\* D_SHIFT[d]
D_SHIFT(d) == Pow2(d)

\* TimeMode
DeltaT == "DeltaT"
AbsoluteT == "AbsoluteT"
Mixed == "Mixed"

\* fast_math::log2_raw(x).to_int_unchecked::<D>() for x >= 1.  The source
\* leaves the cast of the logarithm of a value below 1 undefined; no
\* operation of the model reaches it with such a value.
log2_raw_to_int(x) == IF FTrunc(x) >= 1 THEN BitLen(FTrunc(x)) - 1 ELSE 0

get_d_from_intensity(intensity) ==
    IF FPos(intensity)
    THEN (IF log2_raw_to_int(intensity) < D_MAX THEN log2_raw_to_int(intensity) ELSE D_MAX)
    ELSE 0

\* Option<Event64>
NoEvent64 == [some |-> FALSE, d |-> 0, delta_t |-> FZero]
Event64(d, delta_t) == [some |-> TRUE, d |-> d, delta_t |-> delta_t]

\* Option<Intensity32>
NoIntensity == [some |-> FALSE, v |-> FZero]
SomeIntensity(v) == [some |-> TRUE, v |-> v]

\* PixelNode::new
PixelNode_new(start_intensity) ==
    [ alt |-> FALSE,
      state |-> [ d |-> get_d_from_intensity(start_intensity),
                  integration |-> FZero, delta_t |-> FZero ],
      best_event |-> NoEvent64 ]

\* PixelArena::new; panic records a failed assertion.
PixelArena_new(start_intensity) ==
    [ time_mode |-> DeltaT, last_fired_t |-> FZero, length |-> 1,
      need_to_pop_top |-> FALSE, arena |-> << PixelNode_new(start_intensity) >>,
      panic |-> FALSE ]

\* PixelArena::time_mode(Some(time_mode))
time_mode(pa, tm) == [pa EXCEPT !.time_mode = tm]

\* The Event returned to the caller: d and the time cast to DeltaT.
EventOut(d, t) == [d |-> d, delta_t |-> FTrunc(t)]

\* The AbsoluteT branch: t is the time of the event, last_fired_t + delta_t.
AbsoluteTime(pa, d, t, mode, ref_time) ==
    [ pa |-> [pa EXCEPT !.last_fired_t =
                 IF mode = FramePerfect
                 THEN FInt(RoundUpRef(mode, FTrunc(t), ref_time))
                 ELSE t],
      event |-> EventOut(d, t) ]

\* delta_t_to_absolute_t that leaves last_fired_t as it was.
delta_t_to_absolute_t_no_update(pa, event, mode, ref_time) ==
    IF pa.time_mode = AbsoluteT
    THEN [ pa |-> pa, event |-> EventOut(event.d, FAdd(event.delta_t, pa.last_fired_t)) ]
    ELSE [ pa |-> pa, event |-> EventOut(event.d, event.delta_t) ]

\* delta_t_to_absolute_t that treats Mixed as it treats AbsoluteT.
delta_t_to_absolute_t_mixed(pa, event, mode, ref_time) ==
    IF pa.time_mode \in {AbsoluteT, Mixed}
    THEN AbsoluteTime(pa, event.d, FAdd(event.delta_t, pa.last_fired_t), mode, ref_time)
    ELSE [ pa |-> pa, event |-> EventOut(event.d, event.delta_t) ]

\* PixelArena::delta_t_to_absolute_t
delta_t_to_absolute_t(pa, event, mode, ref_time) ==
    IF pa.time_mode = AbsoluteT
    THEN AbsoluteTime(pa, event.d, FAdd(event.delta_t, pa.last_fired_t), mode, ref_time)
    ELSE [ pa |-> pa, event |-> EventOut(event.d, event.delta_t) ]

\* get_zero_event that leaves the node's delta-t as it is.
get_zero_event_keep_delta_t(pa, idx, next_intensity, mode, ref_time) ==
    delta_t_to_absolute_t(
        [pa EXCEPT !.arena[idx + 1].state.d =
                       IF next_intensity.some THEN get_d_from_intensity(next_intensity.v) ELSE @,
                   !.panic = @ \/ pa.arena[idx + 1].alt],
        Event64(D_ZERO_INTEGRATION, pa.arena[idx + 1].state.delta_t), mode, ref_time)

\* PixelArena::get_zero_event for the node at index idx (from 0).
get_zero_event(pa, idx, next_intensity, mode, ref_time) ==
    delta_t_to_absolute_t(
        [pa EXCEPT !.arena[idx + 1].state.delta_t = FZero,
                   !.arena[idx + 1].state.d =
                       IF next_intensity.some THEN get_d_from_intensity(next_intensity.v) ELSE @,
                   !.panic = @ \/ pa.arena[idx + 1].alt],
        Event64(D_ZERO_INTEGRATION, pa.arena[idx + 1].state.delta_t), mode, ref_time)

\* pop_top_event, root without best event: the root gets a best event from
\* its state and a new node follows it.
WithRootEvent(pa, next_intensity) ==
    [pa EXCEPT
       !.arena = IF Len(@) > 1
                 THEN [@ EXCEPT ![1].best_event =
                                   Event64(log2_raw_to_int(pa.arena[1].state.integration),
                                           pa.arena[1].state.delta_t),
                                ![2] = PixelNode_new(next_intensity)]
                 ELSE Append([@ EXCEPT ![1].best_event =
                                          Event64(log2_raw_to_int(pa.arena[1].state.integration),
                                                  pa.arena[1].state.delta_t)],
                             PixelNode_new(next_intensity)),
       !.length = IF Len(pa.arena) > 1 THEN 2 ELSE @ + 1]

\* ShiftArena that shortens the list without moving the nodes.
ShiftArena_keep_head(pa) ==
    [pa EXCEPT !.length = @ - 1, !.panic = @ \/ pa.arena[pa.length].alt]

\* pop_top_event, root with best event: the nodes move one place forward.
ShiftArena(pa) ==
    [pa EXCEPT
       !.arena = [i \in 1 .. Len(@) |-> IF i <= pa.length - 1 THEN @[i + 1] ELSE @[i]],
       !.length = @ - 1,
       !.panic = @ \/ pa.arena[pa.length].alt]

\* PixelArena::pop_top_event
RECURSIVE pop_top_event(_, _, _, _)
pop_top_event(pa, next_intensity, mode, ref_time) ==
    IF ~pa.arena[1].best_event.some
    THEN IF FIsZero(pa.arena[1].state.integration) /\ FPos(pa.arena[1].state.delta_t)
         THEN get_zero_event([pa EXCEPT !.need_to_pop_top = FALSE], 0,
                             SomeIntensity(next_intensity), mode, ref_time)
         ELSE pop_top_event(WithRootEvent(pa, next_intensity), next_intensity, mode, ref_time)
    ELSE IF pa.length > 1
         THEN delta_t_to_absolute_t(ShiftArena([pa EXCEPT !.need_to_pop_top = FALSE]),
                                    pa.arena[1].best_event, mode, ref_time)
         ELSE [ pa |-> [pa EXCEPT !.need_to_pop_top = FALSE, !.panic = TRUE],
                event |-> EventOut(0, FZero) ]

\* The loop of pop_best_events from node node_idx (from 0) on.
RECURSIVE PopBestFrom(_, _, _, _, _)
RECURSIVE PushEvent(_, _, _, _, _)
PopBestFrom(pa, buffer, node_idx, mode, ref_time) ==
    IF node_idx >= pa.length THEN [pa |-> pa, buffer |-> buffer]
    ELSE IF ~pa.arena[node_idx + 1].best_event.some
         THEN IF FPos(pa.arena[node_idx + 1].state.delta_t)
                    /\ FIsZero(pa.arena[node_idx + 1].state.integration)
              THEN PushEvent(get_zero_event(pa, node_idx, NoIntensity, mode, ref_time),
                             buffer, node_idx, mode, ref_time)
              ELSE PopBestFrom(pa, buffer, node_idx + 1, mode, ref_time)
         ELSE IF node_idx = pa.length - 1
              THEN [pa |-> [pa EXCEPT !.panic = TRUE], buffer |-> buffer]
              ELSE PushEvent(delta_t_to_absolute_t(pa, pa.arena[node_idx + 1].best_event,
                                                   mode, ref_time),
                             buffer, node_idx, mode, ref_time)

PushEvent(r, buffer, node_idx, mode, ref_time) ==
    PopBestFrom(r.pa, Append(buffer, r.event), node_idx + 1, mode, ref_time)

\* MoveLastToFront that leaves the head where it is.
MoveLastToFront_keep_head(pa) ==
    [pa EXCEPT !.length = 1, !.need_to_pop_top = FALSE]

\* The end of pop_best_events: arena.swap(0, length - 1), length = 1.
MoveLastToFront(pa) ==
    [pa EXCEPT
       !.arena = [i \in 1 .. Len(@) |->
                    IF i = 1 THEN @[pa.length] ELSE IF i = pa.length THEN @[1] ELSE @[i]],
       !.length = 1,
       !.need_to_pop_top = FALSE,
       !.panic = @ \/ pa.arena[pa.length].alt]

Compacted(r) ==
    IF r.pa.panic THEN r ELSE [pa |-> MoveLastToFront(r.pa), buffer |-> r.buffer]

\* PixelArena::pop_best_events
pop_best_events(pa, buffer, mode, ref_time) ==
    Compacted(PopBestFrom(pa, buffer, 0, mode, ref_time))

\* The d a node is raised to once it has fired.
RECURSIVE NextD(_, _)
NextD(d, integration) ==
    IF D_SHIFT(d + 1) > FTrunc(integration) THEN d + 1 ELSE NextD(d + 1, integration)

\* FireTime without the time the node had integrated before the sample.
FireTime_sample_only(node, time, prop) == FMul(time, prop)

\* The delta-t of the event a node fires: node.state.delta_t + time * prop.
FireTime(node, time, prop) == FAdd(node.state.delta_t, FMul(time, prop))

\* FiredNode that leaves d where the node fired.
FiredNode_no_raise(node, intensity, time, new_d, prop) ==
    [node EXCEPT
       !.best_event = Event64(new_d, FireTime(node, time, prop)),
       !.state = IF new_d < D_MAX
                 THEN [ d |-> new_d,
                        integration |-> FAdd(node.state.integration, intensity),
                        delta_t |-> FAdd(node.state.delta_t, time) ]
                 ELSE [@ EXCEPT !.d = new_d]]

\* The node that has fired with d = new_d at the fraction prop of the sample.
FiredNode(node, intensity, time, new_d, prop) ==
    [node EXCEPT
       !.best_event = Event64(new_d, FireTime(node, time, prop)),
       !.state = IF new_d < D_MAX
                 THEN [ d |-> NextD(new_d, FAdd(node.state.integration, intensity)),
                        integration |-> FAdd(node.state.integration, intensity),
                        delta_t |-> FAdd(node.state.delta_t, time) ]
                 ELSE [@ EXCEPT !.d = new_d]]

Fired(pa, index, intensity, time, mode, new_d, prop) ==
    [ pa |-> [pa EXCEPT !.arena[index + 1] = FiredNode(@, intensity, time, new_d, prop),
                        !.panic = @ \/ ~FPos(prop)],
      fired |-> TRUE,
      intensity |-> IF mode = FramePerfect \/ ~FGeInt(FSub(intensity, FMul(intensity, prop)), 0)
                    THEN FZero ELSE FSub(intensity, FMul(intensity, prop)),
      time |-> IF mode = FramePerfect \/ ~FGeInt(FSub(intensity, FMul(intensity, prop)), 0)
               THEN FZero ELSE FSub(time, FMul(time, prop)) ]

Fire(pa, index, intensity, time, mode, new_d) ==
    Fired(pa, index, intensity, time, mode, new_d,
          FDiv(FSub(FInt(D_SHIFT(new_d)), pa.arena[index + 1].state.integration), intensity))

\* integrate_main that fires at the d the node has, whatever the sample.
integrate_main_at_node_d(pa, index, intensity, time, mode) ==
    IF FGeInt(FAdd(pa.arena[index + 1].state.integration, intensity),
              D_SHIFT(pa.arena[index + 1].state.d))
    THEN Fire(pa, index, intensity, time, mode, pa.arena[index + 1].state.d)
    ELSE [ pa |-> [pa EXCEPT !.arena[index + 1].state.integration = FAdd(@, intensity),
                             !.arena[index + 1].state.delta_t = FAdd(@, time)],
           fired |-> FALSE, intensity |-> intensity, time |-> time ]

\* PixelArena::integrate_main for the node at index (from 0).
integrate_main(pa, index, intensity, time, mode) ==
    IF FGeInt(FAdd(pa.arena[index + 1].state.integration, intensity),
              D_SHIFT(pa.arena[index + 1].state.d))
    THEN Fire(pa, index, intensity, time, mode,
              get_d_from_intensity(FAdd(pa.arena[index + 1].state.integration, intensity)))
    ELSE [ pa |-> [pa EXCEPT !.arena[index + 1].state.integration = FAdd(@, intensity),
                             !.arena[index + 1].state.delta_t = FAdd(@, time)],
           fired |-> FALSE, intensity |-> intensity, time |-> time ]

\* Branch that ends the list at the node that fired, without a new node.
Branch_no_child(pa, idx, intensity) ==
    [pa EXCEPT !.arena[idx + 1].alt = TRUE, !.length = idx + 1]

\* Branch that keeps the nodes after the new one.
Branch_keep_tail(pa, idx, intensity) ==
    [pa EXCEPT
       !.arena = IF Len(@) > idx + 1
                 THEN [@ EXCEPT ![idx + 2] = PixelNode_new(intensity), ![idx + 1].alt = TRUE]
                 ELSE Append([@ EXCEPT ![idx + 1].alt = TRUE], PixelNode_new(intensity)),
       !.length = Max(idx + 2, @)]

\* integrate: the node at idx has fired, a new node follows it.
Branch(pa, idx, intensity) ==
    [pa EXCEPT
       !.arena = IF Len(@) > idx + 1
                 THEN [@ EXCEPT ![idx + 2] = PixelNode_new(intensity), ![idx + 1].alt = TRUE]
                 ELSE Append([@ EXCEPT ![idx + 1].alt = TRUE], PixelNode_new(intensity)),
       !.length = idx + 2]

\* integrate, Continuous: the d of the new node at idx when time > ref_time.
SetChildD(pa, idx, intensity, time, ref_time) ==
    IF FGtInt(time, ref_time)
    THEN [pa EXCEPT !.arena[idx + 1].state.d = get_d_from_intensity(intensity)]
    ELSE pa

\* The loop of integrate from node idx (from 0) on.
RECURSIVE IntegrateLoop(_, _, _, _, _, _)
RECURSIVE AfterMain(_, _, _, _, _)
RECURSIVE Continue(_, _, _, _, _, _)
IntegrateLoop(pa, idx, intensity, time, mode, ref_time) ==
    AfterMain(integrate_main(pa, idx, intensity, time, mode), idx, intensity, mode, ref_time)

AfterMain(r, idx, intensity, mode, ref_time) ==
    IF r.fired
    THEN IF mode = FramePerfect
         THEN Branch(r.pa, idx, intensity)
         ELSE Continue(SetChildD(Branch(r.pa, idx, intensity), idx + 1, r.intensity, r.time,
                                 ref_time),
                       idx + 1, r.intensity, r.time, mode, ref_time)
    ELSE Continue(r.pa, idx + 1, r.intensity, r.time, mode, ref_time)

Continue(pa, idx, intensity, time, mode, ref_time) ==
    IF idx >= pa.length THEN pa
    ELSE IntegrateLoop(pa, idx, intensity, time, mode, ref_time)

\* ReinitTail that leaves the tail's d as it is.
ReinitTail_never(pa, intensity) == pa

\* integrate: a tail without integration takes its d from the intensity.
ReinitTail(pa, intensity) ==
    IF FIsZero(pa.arena[pa.length].state.delta_t)
          /\ FIsZero(pa.arena[pa.length].state.integration)
    THEN [pa EXCEPT !.arena[pa.length].state.d = get_d_from_intensity(intensity)]
    ELSE pa

\* NeedToPopTop with delta_t > dtm in place of delta_t >= dtm.
NeedToPopTop_strict(head, dtm_) ==
    head.state.d = D_MAX \/ FTrunc(head.state.delta_t) > dtm_

\* The value integrate gives need_to_pop_top.
NeedToPopTop(head, dtm_) ==
    head.state.d = D_MAX \/ FTrunc(head.state.delta_t) >= dtm_

\* The end of integrate.
SetNeed(pa, dtm_) == [pa EXCEPT !.need_to_pop_top = NeedToPopTop(pa.arena[1], dtm_)]

\* integrate that ends its walk at the first node that absorbs the sample.
integrate_stop_at_absorber(pa, intensity, time, mode, dtm_, ref_time) ==
    SetNeed(IF integrate_main(ReinitTail(pa, intensity), 0, intensity, time, mode).fired
            THEN IntegrateLoop(ReinitTail(pa, intensity), 0, intensity, time, mode, ref_time)
            ELSE integrate_main(ReinitTail(pa, intensity), 0, intensity, time, mode).pa,
            dtm_)

\* PixelArena::integrate
integrate(pa, intensity, time, mode, dtm_, ref_time) ==
    SetNeed(IntegrateLoop(ReinitTail(pa, intensity), 0, intensity, time, mode, ref_time), dtm_)

(***************************************************************************)
(* The specification of the pixel model.  px holds three pixels that       *)
(* receive the same calls, one in each time mode (dlt, abs, mix), with the *)
(* events each has emitted (out_dlt, out_abs, out_mix); calls lists the    *)
(* calls made so far, before and before_out are the AbsoluteT pixel and    *)
(* its output as they were when the last call was made.                    *)
(***************************************************************************)

\* The samples a pixel can integrate, <<intensity, time>>: the samples of
\* the tests test_paper_example and test_absolute_mode_1 and a dark one.
Samples == << <<101, 20>>, <<40, 30>>, <<140, 30>>, <<103, 30>>, <<0, 30>> >>

\* The delta_t_max values: that of the tests and one the samples reach.
Dtms == {10000, 80}

StartIntensity == 101
PopRefTime == 30

\* The calls one run makes at most.
MaxIntegrations == 4
MaxPops == 2

\* A call of the run: the operation and, for integrate, the sample.
Call(op, s) == [op |-> op, sample |-> s]

PixelOf(tm) == time_mode(PixelArena_new(FInt(StartIntensity)), tm)

PixelInit ==
    /\ pm = PmIdle
    /\ ad = "off"
    /\ st = "off"
    /\ cm = "off"
    /\ \E mode \in Modes, dtm_ \in Dtms :
          px = [ dlt |-> PixelOf(DeltaT), abs |-> PixelOf(AbsoluteT), mix |-> PixelOf(Mixed),
                 out_dlt |-> <<>>, out_abs |-> <<>>, out_mix |-> <<>>,
                 mode |-> mode, dtm |-> dtm_, calls |-> <<>>, ints |-> 0, pops |-> 0,
                 before |-> PixelOf(AbsoluteT), before_out |-> <<>> ]

PixelLive == ~px.dlt.panic /\ ~px.abs.panic /\ ~px.mix.panic

\* integrate(intensity, time, mode, dtm, ref_time) with the sample s; the
\* reference interval is the time of the sample, as in the tests.
PixelIntegrate ==
    /\ PixelLive
    /\ px.ints < MaxIntegrations
    /\ \E s \in 1 .. Len(Samples) :
          px' = [px EXCEPT
                   !.dlt = integrate(@, FInt(Samples[s][1]), FInt(Samples[s][2]), px.mode,
                                     px.dtm, Samples[s][2]),
                   !.abs = integrate(@, FInt(Samples[s][1]), FInt(Samples[s][2]), px.mode,
                                     px.dtm, Samples[s][2]),
                   !.mix = integrate(@, FInt(Samples[s][1]), FInt(Samples[s][2]), px.mode,
                                     px.dtm, Samples[s][2]),
                   !.calls = Append(@, Call("integrate", s)),
                   !.ints = @ + 1,
                   !.before = px.abs, !.before_out = px.out_abs]
    /\ UNCHANGED <<pm, ad, st, cm>>

\* pop_best_events(&mut out, mode, ref_time)
PixelPopBest ==
    /\ PixelLive
    /\ px.pops < MaxPops
    /\ \E d \in {pop_best_events(px.dlt, px.out_dlt, px.mode, PopRefTime)},
          a \in {pop_best_events(px.abs, px.out_abs, px.mode, PopRefTime)},
          m \in {pop_best_events(px.mix, px.out_mix, px.mode, PopRefTime)} :
          px' = [px EXCEPT !.dlt = d.pa, !.out_dlt = d.buffer,
                           !.abs = a.pa, !.out_abs = a.buffer,
                           !.mix = m.pa, !.out_mix = m.buffer,
                           !.calls = Append(@, Call("pop_best_events", 0)),
                           !.pops = @ + 1,
                           !.before = px.abs, !.before_out = px.out_abs]
    /\ UNCHANGED <<pm, ad, st, cm>>

\* out.push(pop_top_event(next_intensity, mode, ref_time)), called as the
\* transcoder calls it: when need_to_pop_top is set.
PixelPopTop ==
    /\ PixelLive
    /\ px.pops < MaxPops
    /\ px.abs.need_to_pop_top
    /\ \E d \in {pop_top_event(px.dlt, FInt(StartIntensity), px.mode, PopRefTime)},
          a \in {pop_top_event(px.abs, FInt(StartIntensity), px.mode, PopRefTime)},
          m \in {pop_top_event(px.mix, FInt(StartIntensity), px.mode, PopRefTime)} :
          px' = [px EXCEPT !.dlt = d.pa, !.out_dlt = Append(@, d.event),
                           !.abs = a.pa, !.out_abs = Append(@, a.event),
                           !.mix = m.pa, !.out_mix = Append(@, m.event),
                           !.calls = Append(@, Call("pop_top_event", 0)),
                           !.pops = @ + 1,
                           !.before = px.abs, !.before_out = px.out_abs]
    /\ UNCHANGED <<pm, ad, st, cm>>

PixelNext == PixelIntegrate \/ PixelPopBest \/ PixelPopTop

SpecPixel == PixelInit /\ [][PixelNext]_vars

PixelNoPanic == PixelLive /\ px.abs.arena[1].state.d <= D_MAX

(***************************************************************************)
(* Properties of the pixel model (checked under SpecPixel).                *)
(***************************************************************************)

\* The runs of the scenarios: Continuous, dtm = 10000, the samples so far
\* integrated and nothing else.
Integrated(samples) ==
    /\ px.mode = Continuous
    /\ px.dtm = 10000
    /\ px.calls = [i \in 1 .. Len(samples) |-> Call("integrate", samples[i])]

\* After the first call of S5 the head has fired (d = 6, delta-t 12 once
\* truncated) and holds d = 7, integration 101, delta-t 20.
S5FirstCall ==
    Integrated(<< 1 >>) =>
        /\ px.dlt.arena[1].best_event.some
        /\ px.dlt.arena[1].best_event.d = 6
        /\ FTrunc(px.dlt.arena[1].best_event.delta_t) = 12
        /\ px.dlt.arena[1].state = [d |-> 7, integration |-> FInt(101), delta_t |-> FInt(20)]

\* C15 as stated: in scenario S5 (a pixel created at intensity 101 integrates
\* (101, 20) and then (40, 30), Continuous, dtm = 10000) the head has, after
\* the first call, a best event with d = 6 and truncated delta-t 12 and the
\* state d = 7, integration 101, delta-t 20; after the second call the head's
\* best event has d = 7 and a delta-t of approximately 25 (within 1 of 25).
C15_SecondEventNear25 ==
    /\ S5FirstCall
    /\ Integrated(<< 1, 2 >>) =>
          /\ px.dlt.arena[1].best_event.some
          /\ px.dlt.arena[1].best_event.d = 7
          /\ FGeInt(px.dlt.arena[1].best_event.delta_t, 24)
          /\ ~FGtInt(px.dlt.arena[1].best_event.delta_t, 26)

\* C15 amended: the first call is as stated; after the second call the head's
\* best event has d = 7 and delta-t 40.25 = 20 + 30 * (128 - 101) / 40, the
\* time since the head began to integrate, and the node after the head holds
\* the rest of the sample: integration 13 over the time 9.75.
C15_SecondEventAt40 ==
    /\ S5FirstCall
    /\ Integrated(<< 1, 2 >>) =>
          /\ px.dlt.arena[1].best_event = Event64(7, << 161, 4 >>)
          /\ px.dlt.arena[1].state = [d |-> 8, integration |-> FInt(141), delta_t |-> FInt(50)]
          /\ px.dlt.length = 2
          /\ px.dlt.arena[2].state.integration = FInt(13)
          /\ px.dlt.arena[2].state.delta_t = << 39, 4 >>

C15_Witness ==
    /\ Integrated(<< 1, 2 >>)
    /\ px.dlt.arena[1].best_event.some
    /\ px.dlt.arena[1].best_event.d = 7

\* The last call of the run.
LastCall == IF px.calls = <<>> THEN Call("new", 0) ELSE px.calls[Len(px.calls)]

\* The delta-t pop_top_event takes from the head of the pixel pa: that of its
\* best event, or the time the head has integrated when it has none.
TopDeltaT(pa) ==
    IF pa.arena[1].best_event.some THEN pa.arena[1].best_event.delta_t
    ELSE pa.arena[1].state.delta_t

NonDecreasing(events) ==
    \A i \in 1 .. Len(events) - 1 : events[i].delta_t <= events[i + 1].delta_t

\* AbsoluteT, pop_top_event: the event carries last_fired_t + delta-t.
TopEventIsAbsolute ==
    LastCall.op = "pop_top_event" =>
        px.out_abs[Len(px.out_abs)].delta_t
            = FTrunc(FAdd(px.before.last_fired_t, TopDeltaT(px.before)))

\* The scenario of test_absolute_mode_1: (101,20), (40,30), (140,30),
\* (103,30) integrated, then pop_best_events.
AbsoluteScenario ==
    /\ px.mode = Continuous
    /\ px.dtm = 10000
    /\ px.calls = [i \in 1 .. 5 |-> IF i < 5 THEN Call("integrate", i)
                                    ELSE Call("pop_best_events", 0)]

ScenarioEvents ==
    AbsoluteScenario => px.out_abs = << [d |-> 8, delta_t |-> 74], [d |-> 7, delta_t |-> 110] >>

\* C16 as stated: in AbsoluteT time mode every event emitted by
\* pop_best_events or pop_top_event carries t = last_fired_t + delta-t and
\* last_fired_t then becomes t (up to the truncation of t to an integer), so
\* the times of a pixel's events are non-decreasing; the scenario of
\* test_absolute_mode_1 yields exactly (d=8, t=74), (d=7, t=110).
C16_LastFiredBecomesT ==
    /\ TopEventIsAbsolute
    /\ px.out_abs # <<>> =>
          FTrunc(px.abs.last_fired_t) = px.out_abs[Len(px.out_abs)].delta_t
    /\ NonDecreasing(px.out_abs)
    /\ ScenarioEvents

\* C16 amended: the event carries t = last_fired_t + delta-t truncated to an
\* integer; last_fired_t becomes the untruncated sum in Continuous mode and,
\* in FramePerfect mode, t rounded up to a multiple of ref_time.  The times
\* of a pixel's events are non-decreasing and the scenario yields exactly
\* (d=8, t=74), (d=7, t=110), leaving last_fired_t = 110.
C16_LastFiredFollowsT ==
    /\ TopEventIsAbsolute
    /\ (LastCall.op = "pop_top_event" /\ px.mode = Continuous) =>
          px.abs.last_fired_t = FAdd(px.before.last_fired_t, TopDeltaT(px.before))
    /\ px.out_abs # <<>> =>
          IF px.mode = Continuous
          THEN FTrunc(px.abs.last_fired_t) = px.out_abs[Len(px.out_abs)].delta_t
          ELSE /\ px.abs.last_fired_t[2] = 1
               /\ px.abs.last_fired_t[1] % PopRefTime = 0
               /\ px.abs.last_fired_t[1] >= px.out_abs[Len(px.out_abs)].delta_t
               /\ px.abs.last_fired_t[1] < px.out_abs[Len(px.out_abs)].delta_t + PopRefTime
    /\ NonDecreasing(px.out_abs)
    /\ ScenarioEvents
    /\ AbsoluteScenario => px.abs.last_fired_t = FInt(110)

\* The scenario has run to its end.
C16_Witness == AbsoluteScenario /\ Len(px.out_abs) = 2 /\ px.abs.last_fired_t # FZero

\* A pixel that had fired before has popped its top event.
TopPoppedAgain ==
    /\ LastCall.op = "pop_top_event"
    /\ px.before.last_fired_t # FZero
    /\ px.abs.last_fired_t # px.before.last_fired_t

\* C17 as stated: a pixel in Mixed time mode emits, for every sequence of
\* integrate, pop_top_event and pop_best_events calls, exactly the events of
\* the same pixel in AbsoluteT mode.
C17_MixedAsAbsoluteT == px.out_mix = px.out_abs

\* C17 amended: a pixel in Mixed time mode emits exactly the events of the
\* same pixel in DeltaT mode, times relative to the pixel's own integration,
\* and its last_fired_t stays 0; its nodes are those of the AbsoluteT pixel.
C17_MixedAsDeltaT ==
    /\ px.out_mix = px.out_dlt
    /\ px.mix.last_fired_t = FZero
    /\ px.mix.arena = px.abs.arena
    /\ px.mix.length = px.abs.length
    /\ px.mix.need_to_pop_top = px.abs.need_to_pop_top

\* Two events have been emitted and the AbsoluteT times differ from the
\* DeltaT ones.
C17_Witness ==
    /\ Len(px.out_mix) >= 2
    /\ px.out_abs # px.out_dlt
    /\ px.out_mix # px.out_abs

\* need_to_pop_top of the pixel pa is as C18 states after the last call.
PopFlagAsStated(pa) ==
    /\ LastCall.op = "integrate" =>
          (pa.need_to_pop_top <=>
              (pa.arena[1].state.d = D_MAX \/ FGeInt(pa.arena[1].state.delta_t, px.dtm)))
    /\ LastCall.op \in {"pop_top_event", "pop_best_events"} => ~pa.need_to_pop_top

\* C18: after every integrate call need_to_pop_top is true if and only if
\* head.d = D_MAX or head.delta_t >= dtm; after pop_top_event or
\* pop_best_events returns it is false.
C18_NeedToPopTop ==
    PopFlagAsStated(px.dlt) /\ PopFlagAsStated(px.abs) /\ PopFlagAsStated(px.mix)

\* An integrate call has brought the head's delta-t to exactly dtm with d
\* below D_MAX, and the flag is set.
C18_Witness ==
    /\ LastCall.op = "integrate"
    /\ px.abs.arena[1].state.delta_t = FInt(px.dtm)
    /\ px.abs.arena[1].state.d < D_MAX
    /\ px.abs.need_to_pop_top

\* An integrate call has brought the head to D_MAX before dtm.
HeadAtDMax ==
    /\ LastCall.op = "integrate"
    /\ px.abs.arena[1].state.d = D_MAX
    /\ ~FGeInt(px.abs.arena[1].state.delta_t, px.dtm)
    /\ px.abs.need_to_pop_top

\* The live nodes of the pixel when pop_best_events was called, the events
\* the call appended for the DeltaT pixel, and the node that was last.
LiveBefore == SubSeq(px.before.arena, 1, px.before.length)
Appended == SubSeq(px.out_dlt, Len(px.before_out) + 1, Len(px.out_dlt))
LastBefore == px.before.arena[px.before.length]

HasBestEvent(node) == node.best_event.some

\* A node without best event that has integrated time but no intensity.
IsDark(node) ==
    ~node.best_event.some /\ FPos(node.state.delta_t) /\ FIsZero(node.state.integration)

Emits(node) == HasBestEvent(node) \/ IsDark(node)

EmittedBy(node) ==
    IF node.best_event.some
    THEN [d |-> node.best_event.d, delta_t |-> FTrunc(node.best_event.delta_t)]
    ELSE [d |-> D_ZERO_INTEGRATION, delta_t |-> FTrunc(node.state.delta_t)]

EventsOf(nodes) == [i \in 1 .. Len(nodes) |-> EmittedBy(nodes[i])]

\* C19 as stated: pop_best_events appends the best_event of every live node
\* to the output buffer in arena order and then compacts the arena: the node
\* that was last becomes the head with its d, integration and delta-t
\* unchanged, and the arena length is 1.
C19_PopBestAppendsBestEvents ==
    LastCall.op = "pop_best_events" =>
        /\ Appended = EventsOf(SelectSeq(LiveBefore, HasBestEvent))
        /\ px.dlt.length = 1
        /\ px.dlt.arena[1].state = LastBefore.state

\* C19 amended: pop_best_events appends, in arena order, the best_event of
\* every live node that has one and, for every live node without best event
\* that has integrated time but no intensity, an event with d = 254 and the
\* node's delta-t, clearing that node's delta-t; then it compacts the arena:
\* the node that was last becomes the head with its d and integration
\* unchanged and its delta-t unchanged unless it was cleared, the arena
\* length is 1 and the new head has no best event.
C19_PopBestAppendsEvents ==
    LastCall.op = "pop_best_events" =>
        /\ Appended = EventsOf(SelectSeq(LiveBefore, Emits))
        /\ px.dlt.length = 1
        /\ px.dlt.arena[1].state.d = LastBefore.state.d
        /\ px.dlt.arena[1].state.integration = LastBefore.state.integration
        /\ px.dlt.arena[1].state.delta_t =
              IF IsDark(LastBefore) THEN FZero ELSE LastBefore.state.delta_t
        /\ ~px.dlt.arena[1].best_event.some
        /\ ~px.dlt.arena[1].alt

\* pop_best_events has appended two best events and moved a third node that
\* had integrated to the front.
C19_Witness ==
    /\ LastCall.op = "pop_best_events"
    /\ px.before.length = 3
    /\ Len(Appended) = 2
    /\ FPos(LastBefore.state.integration)
    /\ px.dlt.arena[1].state = LastBefore.state

\* pop_best_events has appended an event with d = 254 for the last node.
DarkPopped ==
    /\ LastCall.op = "pop_best_events"
    /\ px.before.length > 1
    /\ IsDark(LastBefore)

(***************************************************************************)
(* The block intra context model (codec/compressed/compression.rs).  The   *)
(* arithmetic coder is lossless over the symbols its model holds; a coded  *)
(* block is modelled as the two streams of residual symbols encode_block   *)
(* writes, the d residuals (after their length) and the delta-t residuals. *)
(* The blocks of the model are fully populated.  A u32 is held as the      *)
(* integer congruent to it modulo 2^32 that lies in -2^31 .. 2^31 - 1: the *)
(* cast of a negative i64 -x to u32 is 2^32 - x, held as -x.               *)
(***************************************************************************)

\* The order in which the events of a block are coded: the zigzag order of
\* a block of 2 x 2 pixels.
ZIGZAG_ORDER == << 0, 1, 2, 3 >>

BLOCK_SIZE_BIG_AREA == Len(ZIGZAG_ORDER)

\* delta_t_max of the context models of the tests.
delta_t_max == 2550

\* u32::leading_zeros
u32_leading_zeros(x) == IF x < 0 THEN 0 ELSE 32 - BitLen(x)

\* x >> k for a u32 x and 0 < k < 32; for x held as a negative integer the
\* value is (2^32 + x) >> k = 2^(32 - k) + floor(x / 2^k).
Shr32(x, k) ==
    IF x >= 0 THEN x \div Pow2(k)
    ELSE Pow2(31 - k) + (Pow2(31 - k) + (x \div Pow2(k)))

\* max(a, b) for u32 a and b: a value held as a negative integer is above
\* every value held as a non-negative one.
MaxU32(a, b) ==
    IF (a < 0) = (b < 0) THEN Max(a, b) ELSE IF a < 0 THEN a ELSE b

\* d as D, the cast of an i16 to u8.
AsD(d) == d % 256

\* dt as DeltaT, the cast of an i64 to u32 (see above).
AsDeltaT(dt) == dt

\* The symbol the coder carries for the d residual c: the alphabet of
\* BlockDResidualModel is -255 .. 254, a residual outside it decodes to no
\* symbol.
DResidualSymbol(c) ==
    IF c >= -255 /\ c < 255 THEN [some |-> TRUE, v |-> c] ELSE [some |-> FALSE, v |-> 0]

\* The symbol the coder carries for the delta-t residual c: the alphabet of
\* BlockDeltaTResidualModel is -delta_t_max .. delta_t_max - 1.
DeltaTResidualSymbol(c, dtmax) ==
    IF c >= -dtmax /\ c < dtmax THEN [some |-> TRUE, v |-> c] ELSE [some |-> FALSE, v |-> 0]

\* BlockIntraPredictionContextModel::new
BlockIntraPredictionContextModel_new(dtmax) ==
    [ prev_coded_event |-> None, delta_t_max |-> dtmax ]

\* The delta-t predicted from the previous coded event and the change of d.
PredictedDeltaT(prev_event, d_resid, dtmax) ==
    IF d_resid = 0 THEN prev_event.delta_t
    ELSE IF d_resid > 0
         THEN IF d_resid <= u32_leading_zeros(prev_event.delta_t) \div 2
              THEN (IF prev_event.delta_t * Pow2(d_resid) < dtmax
                    THEN prev_event.delta_t * Pow2(d_resid) ELSE dtmax)
              ELSE prev_event.delta_t
         ELSE IF -d_resid <= 32 - u32_leading_zeros(prev_event.delta_t)
              THEN MaxU32(Shr32(prev_event.delta_t, -d_resid), prev_event.delta_t)
              ELSE prev_event.delta_t

\* The residuals encode_event codes for the event ev.
Residuals(prev, ev, dtmax) ==
    IF ~prev.some THEN [d |-> ev.d, dt |-> ev.delta_t]
    ELSE [d |-> ev.d - prev.d,
          dt |-> ev.delta_t - PredictedDeltaT(prev, ev.d - prev.d, dtmax)]

\* BlockIntraPredictionContextModel::encode_event: the model after the
\* event and the two streams with the residuals of the event appended.
encode_event(r, ev) ==
    [ model |-> [r.model EXCEPT !.prev_coded_event = Some(ev.d, ev.delta_t)],
      d |-> Append(r.d, DResidualSymbol(
                Residuals(r.model.prev_coded_event, ev, r.model.delta_t_max).d)),
      dt |-> Append(r.dt, DeltaTResidualSymbol(
                Residuals(r.model.prev_coded_event, ev, r.model.delta_t_max).dt,
                r.model.delta_t_max)) ]

\* The loop of encode_block from place i of the zigzag order on.
RECURSIVE EncodeFrom(_, _, _)
EncodeFrom(r, block, i) ==
    IF i > Len(ZIGZAG_ORDER) THEN r
    ELSE EncodeFrom(encode_event(r, block[ZIGZAG_ORDER[i]]), block, i + 1)

\* BlockIntraPredictionContextModel::encode_block
encode_block(model, block) ==
    EncodeFrom([model |-> model, d |-> <<>>, dt |-> <<>>], block, 1)

\* The event decode_block makes of the residuals at one place.
DecodedEvent(prev, d_resid, dt_resid, dtmax) ==
    IF ~prev.some THEN Some(AsD(d_resid), AsDeltaT(dt_resid))
    ELSE Some(AsD(d_resid + prev.d),
              AsDeltaT(PredictedDeltaT(prev, d_resid, dtmax) + dt_resid))

\* decode_block at place i of the zigzag order: the unwrap of a missing
\* symbol panics.
DecodeAt(r, input, i) ==
    IF r.panic \/ ~input.d[i].some \/ ~input.dt[i].some THEN [r EXCEPT !.panic = TRUE]
    ELSE [r EXCEPT
            !.model.prev_coded_event =
                DecodedEvent(@, input.d[i].v, input.dt[i].v, r.model.delta_t_max),
            !.block[ZIGZAG_ORDER[i]] =
                DecodedEvent(r.model.prev_coded_event, input.d[i].v, input.dt[i].v,
                             r.model.delta_t_max)]

RECURSIVE DecodeFrom(_, _, _)
DecodeFrom(r, input, i) ==
    IF i > Len(ZIGZAG_ORDER) THEN r
    ELSE DecodeFrom(DecodeAt(r, input, i), input, i + 1)

\* BlockIntraPredictionContextModel::decode_block
decode_block(model, block, input) ==
    DecodeFrom([model |-> [model EXCEPT !.prev_coded_event = None], block |-> block,
                panic |-> FALSE], input, 1)

(***************************************************************************)
(* The specification of the block intra context model: blocks are encoded  *)
(* one after the other on the model cm.enc and decoded, in the same order, *)
(* on the model cm.dec.                                                    *)
(***************************************************************************)

\* The blocks one run encodes at most.
MaxBlocks == 2

\* The events of the blocks, 0 <= d < 20 and 1 <= delta_t < delta_t_max.
BlockEvents ==
    { Some(5, 100), Some(6, 190), Some(0, delta_t_max - 1), Some(19, 1) }

BlockPixels == 0 .. BLOCK_SIZE_BIG_AREA - 1

EmptyBlock == [i \in BlockPixels |-> None]

BlockInit ==
    /\ pm = PmIdle
    /\ ad = "off"
    /\ st = "off"
    /\ px = "off"
    /\ cm = [ enc |-> BlockIntraPredictionContextModel_new(delta_t_max),
              dec |-> BlockIntraPredictionContextModel_new(delta_t_max),
              source |-> <<>>, coded |-> <<>>, decoded |-> <<>>, panic |-> FALSE ]

\* context_model.encode_block(&mut block, &mut out_writer)
BlockEncode ==
    /\ Len(cm.source) < MaxBlocks
    /\ \E block \in [BlockPixels -> BlockEvents] :
          \E r \in {encode_block(cm.enc, block)} :
             cm' = [cm EXCEPT !.enc = r.model,
                              !.source = Append(@, block),
                              !.coded = Append(@, [d |-> r.d, dt |-> r.dt])]
    /\ UNCHANGED <<pm, ad, st, px>>

\* context_model.decode_block(&mut block, input) for the next coded block
BlockDecode ==
    /\ ~cm.panic
    /\ Len(cm.decoded) < Len(cm.coded)
    /\ \E r \in {decode_block(cm.dec, EmptyBlock, cm.coded[Len(cm.decoded) + 1])} :
          cm' = [cm EXCEPT !.dec = r.model,
                           !.decoded = Append(@, r.block),
                           !.panic = r.panic]
    /\ UNCHANGED <<pm, ad, st, px>>

BlockNext == BlockEncode \/ BlockDecode

SpecBlock == BlockInit /\ [][BlockNext]_vars

\* C20: the block intra context model is lossless: for any sequence of fully
\* populated blocks (0 <= d < 20, 1 <= delta_t < delta_t_max) passed to
\* encode_block on one model, decode_block on a model built with the same
\* delta_t_max reproduces, for each block, every pixel's d and delta_t.
C20_BlocksLossless ==
    /\ ~cm.panic
    /\ \A k \in 1 .. Len(cm.decoded) :
          \A i \in BlockPixels :
             /\ cm.decoded[k][i].some
             /\ cm.decoded[k][i].d = cm.source[k][i].d
             /\ cm.decoded[k][i].delta_t = cm.source[k][i].delta_t

\* The first block a model encodes is decoded as it was.
FirstBlockLossless ==
    /\ ~cm.panic
    /\ Len(cm.decoded) >= 1 => cm.decoded[1] = cm.source[1]

(***************************************************************************)
(* Properties of the residuals and of the reconstruction of the prediction *)
(* model (checked under SpecPred).                                         *)
(***************************************************************************)

\* The encoder has returned from a forward prediction and, for an inter
\* block, the decoder from inverse_inter_prediction.
Coded == pm.status \in {"intra", "inter"}

\* C21: encoder and decoder prediction state stay in lockstep: starting from
\* equal event_memory and t_recon, after forward_inter_prediction on the
\* encoder and inverse_inter_prediction on the decoder, run on the emitted
\* d residuals, 16-bit t residuals and sparam, the encoder's event_memory
\* (d and delta_t) and t_recon equal the decoder's for every pixel, after
\* any sequence of inter blocks.
C21_Lockstep ==
    Coded =>
        \A i \in BlockIdx :
            /\ pm.enc.event_memory[i].d = pm.dec.event_memory[i].d
            /\ pm.enc.event_memory[i].delta_t = pm.dec.event_memory[i].delta_t
            /\ pm.enc.t_recon[i] = pm.dec.t_recon[i]

\* Two inter blocks have been coded, the last with a quantisation that loses
\* bits, and a pixel's reconstructed time differs from its true time.
C21_Witness ==
    /\ pm.status = "inter"
    /\ pm.n >= 2
    /\ pm.sparam > 0
    /\ \E i \in BlockIdx : pm.events[i].some /\ pm.enc.t_recon[i] # pm.enc.t_memory[i]
    /\ pm.enc.event_memory = pm.dec.event_memory
    /\ pm.enc.t_recon = pm.dec.t_recon

(***************************************************************************)
(* SpecPredict: the delta-t prediction on its own.  The encoder predicts   *)
(* with predict_delta_t, the decoder inside inverse_inter_prediction; pm   *)
(* holds the arguments and, once both have run, the two predictions.  The  *)
(* decoder's prediction is read from the event memory it leaves for a      *)
(* pixel whose t_recon and t residual are 0.                               *)
(***************************************************************************)

\* The stored delta_t, d residuals and dtm the prediction is run on.
PredictMems == {0, 1, dt_ref, 600, dt_ref * 261, dtm, dtm + 1}
PredictDResiduals == -9 .. 9
PredictDtms == {dtm, dt_ref * 10}

\* The decoder's model before the block: pixel 0 holds the stored delta_t and
\* has received the d residual with a t residual of 0.
DecoderBefore(mem_delta_t, d_resid) ==
    [PredictionModel_new(Continuous) EXCEPT
        !.event_memory[0] = [d |-> 9, delta_t |-> mem_delta_t],
        !.d_residuals[0] = d_resid]

PredictInit ==
    /\ \E mem \in PredictMems, d_resid \in PredictDResiduals, dtm_ \in PredictDtms :
          pm = [ status |-> "args", mem |-> mem, d_resid |-> d_resid, dtm |-> dtm_,
                 enc_pred |-> 0, dec_pred |-> 0 ]
    /\ ad = "off"
    /\ st = "off"
    /\ px = "off"
    /\ cm = "off"

\* predict_delta_t on the encoder, inverse_inter_prediction on the decoder.
PredictBoth ==
    /\ pm.status = "args"
    /\ \E q \in {inverse_inter_prediction(DecoderBefore(pm.mem, pm.d_resid), 0, pm.dtm,
                                           dt_ref)} :
          pm' = [pm EXCEPT !.status = "predicted",
                           !.enc_pred = predict_delta_t(pm.mem, pm.d_resid, pm.dtm),
                           !.dec_pred = q.m.event_memory[0].delta_t]
    /\ UNCHANGED <<ad, st, px, cm>>

PredictNext == PredictBoth

SpecPredict == PredictInit /\ [][PredictNext]_vars

\* The reference rule of the delta-t prediction.
ReferenceShift(mem, d_resid) ==
    IF 0 < d_resid /\ d_resid < 8 THEN mem * Pow2(d_resid)
    ELSE IF -8 < d_resid /\ d_resid < 0 THEN mem \div Pow2(-d_resid)
    ELSE mem

ReferenceRule(mem, d_resid, dtm_) ==
    IF ReferenceShift(mem, d_resid) > dtm_ THEN mem ELSE ReferenceShift(mem, d_resid)

\* C22: for every (mem.delta_t, d_resid, dtm) the encoder's predict_delta_t
\* and the decoder's prediction in inverse_inter_prediction both return the
\* value of the reference rule: mem.delta_t << d_resid when 0 < d_resid < 8,
\* mem.delta_t >> |d_resid| when -8 < d_resid < 0, mem.delta_t otherwise,
\* replaced by mem.delta_t whenever that value exceeds dtm; the result never
\* exceeds dtm when mem.delta_t <= dtm.
C22_PredictionRule ==
    pm.status = "predicted" =>
        /\ pm.enc_pred = ReferenceRule(pm.mem, pm.d_resid, pm.dtm)
        /\ pm.dec_pred = ReferenceRule(pm.mem, pm.d_resid, pm.dtm)
        /\ pm.mem <= pm.dtm => (pm.enc_pred <= pm.dtm /\ pm.dec_pred <= pm.dtm)

\* Both sides have predicted for a stored delta_t within dtm whose shifted
\* value exceeds dtm, and have fallen back to the stored delta_t.
C22_Witness ==
    /\ pm.status = "predicted"
    /\ pm.d_resid \in 1 .. 7
    /\ pm.mem <= pm.dtm
    /\ pm.mem * Pow2(pm.d_resid) > pm.dtm
    /\ pm.enc_pred = pm.mem
    /\ pm.dec_pred = pm.mem

(* Assertions of the inter prediction (checked under SpecPred). *)

\* What the interface asks of an inter block: every populated pixel's time
\* lies within dtm after the pixel's t_memory, and every stored delta_t is
\* within dtm.
InterPrecondition(m, events) ==
    /\ \A i \in Populated(events) :
          /\ m.t_memory[i] <= events[i].delta_t
          /\ events[i].delta_t <= m.t_memory[i] + dtm
    /\ \A i \in BlockIdx :
          m.event_memory[i].delta_t >= 0 /\ m.event_memory[i].delta_t <= dtm

\* C26: for every inter block in which each populated pixel's time t
\* satisfies t_memory <= t <= t_memory + dtm, the stored delta_t values
\* being within dtm, forward_inter_prediction with its reconstruction step
\* completes without a failed assertion or an unsigned underflow.
C26_InterCompletes ==
    [][ (pm.status \in {"intra", "inter"} /\ InterPrecondition(pm.enc, pm'.events))
            => pm'.status # "panic" ]_vars

(***************************************************************************)
(* SpecForward: the two forward predictions on blocks of three pixels,     *)
(* with times that are not multiples of the reference interval and with    *)
(* residuals at the edge of the signed 16-bit range.  pm holds the model   *)
(* before and after the last call, the block handed in, the sparam passed  *)
(* in and what the call returned.                                          *)
(***************************************************************************)

\* The sparam handed to the forward predictions.
ForwardSparams == {0, 3}

\* Pixels of the intra block and of the inter blocks that receive events.
IntraPixels == {1, 2, 3}
InterPixels == {1, 2}

\* (d, t) of the events offered to a pixel of the intra block.
ForwardIntraChoices == {<<1, dt_ref>>, <<3, 100>>, <<2, 32868>>}

\* (d, delta-t after t_memory) of the events offered to a pixel of an inter
\* block; the last one lies beyond dtm.
ForwardInterChoices == {<<2, 100>>, <<2, 32868>>, <<1, dtm>>, <<1, dtm + 1>>}

MaxForwardInter == 2

ForwardBlock(f, pixels, base) ==
    [i \in BlockIdx |->
        IF i \in pixels /\ f[i] # NoChoice
        THEN Some(f[i][1], base[i] + f[i][2])
        ELSE None]

ForwardInit ==
    /\ \E mode \in Modes, sparam \in ForwardSparams :
          pm = [ status |-> "new", mode |-> mode, sparam_in |-> sparam,
                 before |-> PredictionModel_new(mode),
                 enc |-> PredictionModel_new(mode),
                 events |-> NoBlock,
                 head_t |-> 0, head_d |-> 0, sparam |-> 0, n |-> 0 ]
    /\ ad = "off"
    /\ st = "off"
    /\ px = "off"
    /\ cm = "off"

\* forward_intra_prediction on a block that holds at least one event.
ForwardIntra ==
    /\ pm.status = "new"
    /\ \E f \in [IntraPixels -> ForwardIntraChoices \cup {NoChoice}] :
          /\ \E i \in IntraPixels : f[i] # NoChoice
          /\ \E events \in {ForwardBlock(f, IntraPixels, [i \in BlockIdx |-> 0])} :
             \E r \in {forward_intra_prediction(pm.enc, pm.sparam_in, dt_ref, dtm, events)} :
                pm' = [pm EXCEPT
                         !.status = IF r.ok THEN "intra" ELSE "panic",
                         !.before = pm.enc,
                         !.enc = r.m,
                         !.events = events,
                         !.head_t = r.head_t,
                         !.head_d = r.head_d,
                         !.sparam = r.sparam]
    /\ UNCHANGED <<ad, st, px, cm>>

\* forward_inter_prediction on the next block; a failed assertion leaves
\* the model as it was before the call.
ForwardInter ==
    /\ pm.status \in {"intra", "inter"}
    /\ pm.n < MaxForwardInter
    /\ \E f \in [InterPixels -> ForwardInterChoices \cup {NoChoice}] :
          \E events \in {ForwardBlock(f, InterPixels, pm.enc.t_memory)} :
          \E r \in {forward_inter_prediction(pm.enc, pm.sparam_in, dtm, dt_ref, events)} :
             pm' = [pm EXCEPT
                      !.status = IF r.ok THEN "inter" ELSE "panic",
                      !.before = pm.enc,
                      !.enc = IF r.ok THEN r.m ELSE pm.enc,
                      !.events = events,
                      !.sparam = r.sparam,
                      !.n = @ + 1]
    /\ UNCHANGED <<ad, st, px, cm>>

ForwardNext == ForwardIntra \/ ForwardInter

SpecForward == ForwardInit /\ [][ForwardNext]_vars

(* Properties of the forward predictions (checked under SpecForward). *)

FitsI16(x) == -32768 <= x /\ x <= 32767

\* The largest magnitude among the block's t residuals.
MaxResidual == MaxOver([i \in BlockIdx |-> Abs(pm.enc.dt_pred_residuals[i])], BLOCK_SIZE_AREA)

\* The returned sparam is within [0, 48], not below the one passed in, and
\* every residual shifted right by it fits i16 and is what the cast stored.
SparamFits ==
    /\ pm.sparam \in 0 .. 48
    /\ pm.sparam >= pm.sparam_in
    /\ \A i \in BlockIdx :
          /\ FitsI16(Shr(pm.enc.dt_pred_residuals[i], pm.sparam))
          /\ pm.enc.dt_pred_residuals_i16[i] = Shr(pm.enc.dt_pred_residuals[i], pm.sparam)

\* C23 as stated: the sparam returned by forward_intra_prediction and
\* forward_inter_prediction lies in [0, 48] and is the minimum shift, not
\* below the sparam passed in, such that every t residual of the block
\* shifted right by it is in [-32768, 32767].
C23_MinimumShift ==
    Coded =>
        /\ SparamFits
        /\ \A s \in pm.sparam_in .. pm.sparam - 1 :
              \E i \in BlockIdx : ~FitsI16(Shr(pm.enc.dt_pred_residuals[i], s))

\* C23 as the code has it: the returned sparam lies in [0, 48], every t
\* residual shifted right by it is in [-32768, 32767], and it is the minimum
\* shift, not below the sparam passed in, that brings the largest residual
\* magnitude of the block to at most 32767.
C23_SparamOfMagnitude ==
    Coded =>
        /\ SparamFits
        /\ \A s \in pm.sparam_in .. pm.sparam - 1 : Shr(MaxResidual, s) > 32767

\* A block whose largest residual is -32768: it fits i16 unshifted, and the
\* sparam passed in, 0, was raised to 1.
C23_Witness ==
    /\ Coded
    /\ pm.sparam_in = 0
    /\ pm.sparam = 1
    /\ MaxResidual = 32768
    /\ \A i \in BlockIdx : FitsI16(pm.enc.dt_pred_residuals[i])

\* An inter block whose sparam was raised to 2.
SparamRaisedTwice == pm.status = "inter" /\ pm.sparam_in = 0 /\ pm.sparam = 2

\* Pixel i is the first populated pixel of the block.
IsStart(i) == pm.events[i].some /\ \A j \in BlockIdx : pm.events[j].some => i <= j

\* Head and residuals of the intra block: the head is the first populated
\* pixel's (delta_t, d), every later populated pixel has its residuals
\* against that pixel.
IntraAgainstStart ==
    \A first \in BlockIdx : IsStart(first) =>
        /\ pm.head_t = pm.events[first].delta_t
        /\ pm.head_d = pm.events[first].d
        /\ \A i \in BlockIdx : (pm.events[i].some /\ i > first) =>
              /\ pm.enc.d_residuals[i] = pm.events[i].d - pm.events[first].d
              /\ pm.enc.dt_pred_residuals_i16[i] =
                    (pm.events[i].delta_t - pm.events[first].delta_t) \div Pow2(pm.sparam)

\* C24 as stated: forward_intra_prediction returns the first populated
\* pixel's (delta_t, d) as the head, gives every later populated pixel its d
\* residual and quantised t residual against the first populated pixel, and
\* sets t_memory and t_recon of every populated pixel to that pixel's time.
C24_IntraTimesVerbatim ==
    pm.status = "intra" =>
        /\ IntraAgainstStart
        /\ \A i \in BlockIdx : pm.events[i].some =>
              /\ pm.enc.t_memory[i] = pm.events[i].delta_t
              /\ pm.enc.t_recon[i] = pm.events[i].delta_t

\* C24 as the code has it: head and residuals as stated; t_memory and
\* t_recon of every populated pixel are the pixel's time in Continuous mode
\* and the pixel's time rounded up to the next multiple of dt_ref in
\* FramePerfect mode.
C24_IntraTimesRounded ==
    pm.status = "intra" =>
        /\ IntraAgainstStart
        /\ \A i \in BlockIdx : pm.events[i].some =>
              /\ pm.enc.t_recon[i] = pm.enc.t_memory[i]
              /\ pm.enc.t_memory[i] >= pm.events[i].delta_t
              /\ pm.enc.t_memory[i] < pm.events[i].delta_t + dt_ref
              /\ pm.mode = FramePerfect => pm.enc.t_memory[i] % dt_ref = 0
              /\ pm.mode = Continuous => pm.enc.t_memory[i] = pm.events[i].delta_t

\* A FramePerfect intra block of three events in which the residual of the
\* third against the first differs from the one against the second, and
\* the first pixel's time is not a multiple of dt_ref.
C24_Witness ==
    /\ pm.status = "intra"
    /\ pm.mode = FramePerfect
    /\ \A i \in IntraPixels : pm.events[i].some
    /\ pm.events[1].delta_t # pm.events[2].delta_t
    /\ pm.events[1].d # pm.events[2].d
    /\ pm.events[1].delta_t % dt_ref # 0
    /\ pm.enc.t_memory[1] # pm.events[1].delta_t

\* C25 as stated: in the residuals returned by forward_intra_prediction and
\* by forward_inter_prediction, d_residuals[i] = D_ENCODE_NO_EVENT if and
\* only if pixel i holds no event in the block.
C25_SentinelIffEmpty ==
    Coded =>
        \A i \in BlockIdx :
            (pm.enc.d_residuals[i] = D_ENCODE_NO_EVENT) <=> ~pm.events[i].some

\* C25 as the code has it: after forward_inter_prediction the sentinel marks
\* exactly the pixels without an event; after forward_intra_prediction it
\* marks those and the first populated pixel, whose event is the head.
C25_SentinelIffEmptyOrHead ==
    /\ pm.status = "inter" =>
          \A i \in BlockIdx :
              (pm.enc.d_residuals[i] = D_ENCODE_NO_EVENT) <=> ~pm.events[i].some
    /\ pm.status = "intra" =>
          \A i \in BlockIdx :
              (pm.enc.d_residuals[i] = D_ENCODE_NO_EVENT) <=> (~pm.events[i].some \/ IsStart(i))

\* An intra block with a head, a later event and an empty pixel between.
C25_Witness ==
    /\ pm.status = "intra"
    /\ pm.events[1].some /\ ~pm.events[2].some /\ pm.events[3].some
    /\ pm.enc.d_residuals[1] = D_ENCODE_NO_EVENT
    /\ pm.enc.d_residuals[3] # D_ENCODE_NO_EVENT

\* A second inter block that leaves empty a pixel the first one populated.
InterPixelLeftEmpty ==
    /\ pm.status = "inter"
    /\ pm.n = 2
    /\ ~pm.events[1].some
    /\ pm.events[2].some
    /\ pm.before.d_residuals[1] # D_ENCODE_NO_EVENT

(***************************************************************************)
(* Properties of integrate (checked under SpecPixel).  They compare the    *)
(* AbsoluteT pixel before the last call, px.before, with the pixel after   *)
(* it, px.abs.                                                             *)
(***************************************************************************)

\* The sample of the last integrate call.
SampleI == FInt(Samples[LastCall.sample][1])
SampleT == FInt(Samples[LastCall.sample][2])

\* Node j (from 1) as the walk of the last integrate call found it: the
\* tail without integration and delta-t has taken its d from the sample.
NodeBefore(j) ==
    IF j = px.before.length
          /\ FIsZero(px.before.arena[j].state.delta_t)
          /\ FIsZero(px.before.arena[j].state.integration)
    THEN [px.before.arena[j] EXCEPT !.state.d = get_d_from_intensity(SampleI)]
    ELSE px.before.arena[j]

NodeAfter(j) == px.abs.arena[j]

\* The sample brings node j to its threshold: integration + I >= 2^d.
Crosses(j) ==
    FGeInt(FAdd(NodeBefore(j).state.integration, SampleI), Pow2(NodeBefore(j).state.d))

\* Node k is the first node, front to back, the sample brings to its
\* threshold.
FirstCrossing(k) ==
    /\ LastCall.op = "integrate"
    /\ k \in 1 .. px.before.length
    /\ Crosses(k)
    /\ \A j \in 1 .. k - 1 : ~Crosses(j)

\* The d for which 2^d <= x < 2^(d + 1), at most D_MAX.
FloorLog2(x) ==
    CHOOSE e \in 0 .. D_MAX :
        \/ e = D_MAX /\ FGeInt(x, Pow2(D_MAX))
        \/ FGeInt(x, Pow2(e)) /\ ~FGeInt(x, Pow2(e + 1))

\* The fraction of the sample at which a node of integration int reaches 2^d.
PropAt(d, int) == FDiv(FSub(FInt(Pow2(d)), int), SampleI)

\* Node k has fired at d: its best_event has d and the delta-t at the
\* crossing of 2^d, the sample has been added to it, and its d is the first
\* above the fired one with 2^d > integration.
FiredAt(k, d) ==
    /\ FPos(PropAt(d, NodeBefore(k).state.integration))
    /\ NodeAfter(k).best_event.some
    /\ NodeAfter(k).best_event.d = d
    /\ NodeAfter(k).best_event.delta_t =
          FAdd(NodeBefore(k).state.delta_t,
               FMul(SampleT, PropAt(d, NodeBefore(k).state.integration)))
    /\ NodeAfter(k).state.integration = FAdd(NodeBefore(k).state.integration, SampleI)
    /\ NodeAfter(k).state.delta_t = FAdd(NodeBefore(k).state.delta_t, SampleT)
    /\ NodeAfter(k).state.d > d
    /\ Pow2(NodeAfter(k).state.d) > FTrunc(NodeAfter(k).state.integration)
    /\ \A e \in d + 1 .. NodeAfter(k).state.d - 1 :
          Pow2(e) <= FTrunc(NodeAfter(k).state.integration)

LaterNodeFires == \E k \in 2 .. px.before.length : FirstCrossing(k)

\* Every call made so far is an integrate call.
OnlyIntegrated == \A c \in 1 .. Len(px.calls) : px.calls[c].op = "integrate"

\* C28: after any sequence of integrate calls, whenever the head holds a
\* best_event whose d is below D_MAX, head.state.d = head.best_event.d + 1,
\* also when a single sample raises the integration by several powers of two.
C28_HeadOneAboveEvent ==
    (OnlyIntegrated /\ px.abs.arena[1].best_event.some
                    /\ px.abs.arena[1].best_event.d < D_MAX) =>
        px.abs.arena[1].state.d = px.abs.arena[1].best_event.d + 1

\* After integrate calls only, the last sample has carried the head over
\* more than one power of two: it fired above the d it had, and holds the d
\* one above its event.
C28_Witness ==
    /\ OnlyIntegrated
    /\ FirstCrossing(1)
    /\ NodeAfter(1).best_event.d > NodeBefore(1).state.d
    /\ NodeAfter(1).best_event.d < D_MAX
    /\ NodeAfter(1).state.d = NodeAfter(1).best_event.d + 1

\* After integrate calls only, the head has absorbed a sample since it
\* fired.
HeadAbsorbedAfterFiring ==
    /\ OnlyIntegrated
    /\ LastCall.op = "integrate"
    /\ px.before.arena[1].best_event.some
    /\ ~Crosses(1)
    /\ FPos(SampleI)

\* The fraction of the last sample at which node k fired.
FiredProp(k) ==
    PropAt(FloorLog2(FAdd(NodeBefore(k).state.integration, SampleI)),
           NodeBefore(k).state.integration)

\* The part of x that remains after the fraction prop of it.
Remainder(x, prop) == FSub(x, FMul(x, prop))

\* C29: when a node fires during integrate, a fresh child node is appended
\* (or overwrites the next slot) and every node after it is discarded; in
\* FramePerfect mode the walk then stops and the child keeps integration 0
\* and delta-t 0, in Continuous mode the child is integrated with the
\* remainder (I * (1 - prop), dt * (1 - prop)).
C29_ChildAfterFire ==
    \A k \in 1 .. px.before.length :
        FirstCrossing(k) =>
            /\ px.abs.length >= k + 1
            /\ Len(px.abs.arena) = Max(Len(px.before.arena), k + 1)
                  \/ px.abs.length > k + 1
            /\ px.mode = FramePerfect =>
                  /\ px.abs.length = k + 1
                  /\ NodeAfter(k + 1) = PixelNode_new(SampleI)
            /\ px.mode = Continuous =>
                  /\ NodeAfter(k + 1).state.integration = Remainder(SampleI, FiredProp(k))
                  /\ NodeAfter(k + 1).state.delta_t = Remainder(SampleT, FiredProp(k))
                  /\ ~NodeAfter(k + 1).best_event.some => px.abs.length = k + 1
                  /\ NodeAfter(k + 1).best_event.some => px.abs.length > k + 1

\* A Continuous pixel of three nodes whose head has fired: the child has
\* taken the place of the second node with the remainder of the sample, and
\* the third node is no longer live.
C29_Witness ==
    /\ px.mode = Continuous
    /\ FirstCrossing(1)
    /\ px.before.length = 3
    /\ px.abs.length = 2
    /\ FPos(NodeAfter(2).state.integration)
    /\ NodeAfter(2).state.integration = Remainder(SampleI, FiredProp(1))

\* A FramePerfect pixel whose head has fired while a node followed it.
FramePerfectChildOverwrites ==
    /\ px.mode = FramePerfect
    /\ FirstCrossing(1)
    /\ px.before.length = 2
    /\ px.abs.length = 2
    /\ FIsZero(NodeAfter(2).state.integration)

\* A Continuous pixel whose child has fired with the remainder.
ChildFiresToo ==
    /\ px.mode = Continuous
    /\ \E k \in 1 .. px.before.length :
          FirstCrossing(k) /\ NodeAfter(k + 1).best_event.some /\ px.abs.length = k + 2

\* Node k has absorbed the last sample: integration and delta-t have grown
\* by it, d and best_event are as they were.
Absorbed(k) ==
    /\ NodeAfter(k).state.integration = FAdd(NodeBefore(k).state.integration, SampleI)
    /\ NodeAfter(k).state.delta_t = FAdd(NodeBefore(k).state.delta_t, SampleT)
    /\ NodeAfter(k).state.d = NodeBefore(k).state.d
    /\ NodeAfter(k).best_event = NodeBefore(k).best_event

\* C30 as stated: in integrate the first node, front to back, for which
\* integration + I < 2^d absorbs the sample and the walk stops there: every
\* node after it is left unchanged by that call.
C30_WalkStopsAtAbsorber ==
    (LastCall.op = "integrate" /\ ~Crosses(1)) =>
        /\ Absorbed(1)
        /\ px.abs.length = px.before.length
        /\ \A j \in 2 .. px.before.length : NodeAfter(j) = px.before.arena[j]

\* C30 as the code has it: every node, front to back, up to the first one
\* the sample brings to its threshold absorbs the sample; the walk goes on
\* with the same sample behind a node that absorbed, to the end of the list
\* when no node fires.
C30_EveryNodeAbsorbs ==
    LastCall.op = "integrate" =>
        /\ \A k \in 1 .. px.before.length :
              (\A j \in 1 .. k : ~Crosses(j)) => Absorbed(k)
        /\ (\A j \in 1 .. px.before.length : ~Crosses(j)) =>
              px.abs.length = px.before.length

\* The head and the node behind it have both absorbed a sample of positive
\* intensity.
C30_Witness ==
    /\ LastCall.op = "integrate"
    /\ FPos(SampleI)
    /\ px.before.length >= 2
    /\ ~Crosses(1) /\ ~Crosses(2)
    /\ NodeAfter(2).state.integration = FAdd(px.before.arena[2].state.integration, SampleI)
    /\ NodeAfter(2) # px.before.arena[2]

\* The head has absorbed the sample and the node behind it has fired.
NodeBehindAbsorberFires ==
    /\ LastCall.op = "integrate"
    /\ ~Crosses(1)
    /\ FirstCrossing(2)
    /\ NodeAfter(2).best_event # px.before.arena[2].best_event

\* The last integrate call brought no live node to its threshold.
NoCrossing ==
    /\ LastCall.op = "integrate"
    /\ \A j \in 1 .. px.before.length : ~Crosses(j)

\* Node j was, when the call was made, the last live node and held neither
\* integration nor delta-t.
FreshTail(j) ==
    /\ j = px.before.length
    /\ FIsZero(px.before.arena[j].state.delta_t)
    /\ FIsZero(px.before.arena[j].state.integration)

\* Integration and delta-t of node j have grown by the sample, its
\* best_event is as it was.
GrownBySample(j) ==
    /\ NodeAfter(j).state.integration = FAdd(px.before.arena[j].state.integration, SampleI)
    /\ NodeAfter(j).state.delta_t = FAdd(px.before.arena[j].state.delta_t, SampleT)
    /\ NodeAfter(j).best_event = px.before.arena[j].best_event

\* C31 as stated: in an integrate call in which no live node reaches its
\* threshold, every live node has its integration increased by I and its
\* delta-t by dt, while the arena length, every node's d and every pending
\* best_event are unchanged.
C31_AllNodesKeepD ==
    NoCrossing =>
        /\ px.abs.length = px.before.length
        /\ \A j \in 1 .. px.before.length :
              GrownBySample(j) /\ NodeAfter(j).state.d = px.before.arena[j].state.d

\* C31 as the code has it: as stated, except that a last node that holds
\* neither integration nor delta-t first takes its d from the sample; in a
\* call without crossing that sample is dark and the d becomes 0.
C31_AllNodesGrow ==
    NoCrossing =>
        /\ px.abs.length = px.before.length
        /\ \A j \in 1 .. px.before.length :
              /\ GrownBySample(j)
              /\ ~FreshTail(j) => NodeAfter(j).state.d = px.before.arena[j].state.d
              /\ FreshTail(j) => (FIsZero(SampleI) /\ NodeAfter(j).state.d = 0)

\* A dark sample on a head that has fired and a fresh child behind it: both
\* have integrated the time, and the child's d has dropped to 0.
C31_Witness ==
    /\ NoCrossing
    /\ px.before.length = 2
    /\ FreshTail(2)
    /\ px.before.arena[2].state.d > 0
    /\ NodeAfter(2).state.d = 0
    /\ NodeAfter(1).state.delta_t = FAdd(px.before.arena[1].state.delta_t, SampleT)
    /\ NodeAfter(2).state.delta_t = SampleT

\* A sample of positive intensity that three live nodes absorb.
ThreeNodesAbsorb ==
    /\ NoCrossing
    /\ FPos(SampleI)
    /\ px.before.length = 3

(* Properties of the pops (checked under SpecPixel). *)

\* The last call was pop_top_event on a head that held a best_event.
PoppedHeadEvent ==
    /\ LastCall.op = "pop_top_event"
    /\ px.before.arena[1].best_event.some

\* C32: pop_top_event, when the head holds a best_event, returns that event
\* only, moves every remaining live node one position forward with its d,
\* integration, delta-t and best_event unchanged, and decreases the arena
\* length by exactly one.
C32_PopTopShifts ==
    PoppedHeadEvent =>
        /\ Appended = << [d |-> px.before.arena[1].best_event.d,
                          delta_t |-> FTrunc(px.before.arena[1].best_event.delta_t)] >>
        /\ px.abs.length = px.before.length - 1
        /\ \A j \in 1 .. px.before.length - 1 :
              /\ NodeAfter(j).state = px.before.arena[j + 1].state
              /\ NodeAfter(j).best_event = px.before.arena[j + 1].best_event

\* pop_top_event has taken the head of three live nodes: two nodes have
\* moved forward, the new head still holds its own best_event.
C32_Witness ==
    /\ PoppedHeadEvent
    /\ px.before.length = 3
    /\ px.abs.length = 2
    /\ NodeAfter(1).best_event.some
    /\ NodeAfter(1).best_event # px.before.arena[1].best_event
    /\ Len(Appended) = 1

\* A node without best event that has integrated neither time nor
\* intensity.
IsFresh(node) ==
    ~node.best_event.some /\ FIsZero(node.state.delta_t) /\ FIsZero(node.state.integration)

\* The forced event of a dark node.
ZeroEventOf(node) == [d |-> 254, delta_t |-> FTrunc(node.state.delta_t)]

\* The place (from 1) at which pop_best_events leaves the node it found at
\* place j: the last node and the head change places.
PlaceAfterPopBest(j) ==
    IF j = 1 THEN px.before.length ELSE IF j = px.before.length THEN 1 ELSE j

\* The number of events the nodes before place j gave to a pop_best_events
\* call.
EmittedBefore(j) == Len(SelectSeq(SubSeq(px.before.arena, 1, j - 1), Emits))

DarkHeadPoppedTop ==
    /\ LastCall.op = "pop_top_event"
    /\ IsDark(px.before.arena[1])
    /\ Appended[1].d = 254

\* pop_best_events on a list whose last node was fresh: it gave no event.
FreshTailPopped ==
    /\ LastCall.op = "pop_best_events"
    /\ px.before.length = 2
    /\ IsFresh(px.before.arena[2])
    /\ Len(Appended) = 1

\* C34: after any sequence of integrate, pop_top_event and pop_best_events
\* calls the arena length is at least 1, every live node except the last
\* holds a best_event and the last live node holds none; the assertions
\* assert_ne!(node_idx, length - 1) of pop_best_events and
\* assert!(length > 1) of pop_top_event never fail.
C34_ArenaShape ==
    /\ px.abs.length >= 1
    /\ px.abs.length <= Len(px.abs.arena)
    /\ \A j \in 1 .. px.abs.length - 1 : px.abs.arena[j].best_event.some
    /\ ~px.abs.arena[px.abs.length].best_event.some
    /\ ~px.abs.panic

\* Three live nodes after integrate calls and pops of both kinds.
C34_Witness ==
    /\ \E c \in 1 .. Len(px.calls) : px.calls[c].op = "pop_top_event"
    /\ \E c \in 1 .. Len(px.calls) : px.calls[c].op = "pop_best_events"
    /\ LastCall.op = "integrate"
    /\ px.abs.length = 3
    /\ px.abs.arena[1].best_event.some
    /\ px.abs.arena[2].best_event.some
    /\ ~px.abs.arena[3].best_event.some

\* pop_top_event has run on a root without best_event that was not dark.
RootEventMade ==
    /\ LastCall.op = "pop_top_event"
    /\ ~px.before.arena[1].best_event.some
    /\ ~IsDark(px.before.arena[1])

(***************************************************************************)
(* SpecPixelLit: the pixel model under samples of intensity 1 or more,     *)
(* with set_d_for_continuous among the calls.  set_d_for_continuous is    *)
(* called on a pixel that does not wait to be popped (need_to_pop_top is   *)
(* not set).                                                               *)
(***************************************************************************)

D_EMPTY == 255

\* set_d_for_continuous without the reset of a head whose d is lowered.
set_d_for_continuous_no_reset(pa, next_intensity) ==
    [ pa |-> [pa EXCEPT !.arena[1].state.d = get_d_from_intensity(next_intensity)],
      event |-> [some |-> FALSE, d |-> 0, delta_t |-> 0] ]

\* PixelArena::set_d_for_continuous: the head takes the d of the next
\* intensity; a head whose d is lowered gives up what it has integrated and
\* returns an event with d = D_EMPTY.
set_d_for_continuous(pa, next_intensity) ==
    IF get_d_from_intensity(next_intensity) < pa.arena[1].state.d
          /\ FPos(pa.arena[1].state.delta_t)
    THEN [ pa |-> [pa EXCEPT !.arena[1].state =
                      [ d |-> get_d_from_intensity(next_intensity),
                        integration |-> FZero, delta_t |-> FZero ]],
           event |-> [some |-> TRUE, d |-> D_EMPTY,
                      delta_t |-> FTrunc(pa.arena[1].state.delta_t)] ]
    ELSE [ pa |-> [pa EXCEPT !.arena[1].state.d = get_d_from_intensity(next_intensity)],
           event |-> [some |-> FALSE, d |-> 0, delta_t |-> 0] ]

\* The samples of this specification: those of Samples and one that spans
\* no time (two measurements of a pixel with the same timestamp).  The
\* samples of intensity 1 or more, and the intensities announced to
\* set_d_for_continuous.
LitSampleList == Samples \o << <<140, 0>> >>
LitSamples == {s \in 1 .. Len(LitSampleList) : LitSampleList[s][1] >= 1}
NextIntensities == {1, 40, 2000}

MaxLitIntegrations == 3
MaxSetD == 1

SetDCalls == Len(SelectSeq(px.calls, LAMBDA c : c.op = "set_d_for_continuous"))

WithEvent(out, r) ==
    IF r.event.some THEN Append(out, [d |-> r.event.d, delta_t |-> r.event.delta_t]) ELSE out

\* integrate with a sample of intensity 1 or more.
PixelIntegrateLit ==
    /\ PixelLive
    /\ px.ints < MaxLitIntegrations
    /\ \E s \in LitSamples :
          px' = [px EXCEPT
                   !.dlt = integrate(@, FInt(LitSampleList[s][1]), FInt(LitSampleList[s][2]), px.mode,
                                     px.dtm, LitSampleList[s][2]),
                   !.abs = integrate(@, FInt(LitSampleList[s][1]), FInt(LitSampleList[s][2]), px.mode,
                                     px.dtm, LitSampleList[s][2]),
                   !.mix = integrate(@, FInt(LitSampleList[s][1]), FInt(LitSampleList[s][2]), px.mode,
                                     px.dtm, LitSampleList[s][2]),
                   !.calls = Append(@, Call("integrate", s)),
                   !.ints = @ + 1,
                   !.before = px.abs, !.before_out = px.out_abs]
    /\ UNCHANGED <<pm, ad, st, cm>>

\* set_d_for_continuous(next_intensity)
PixelSetD ==
    /\ PixelLive
    /\ SetDCalls < MaxSetD
    /\ ~px.abs.need_to_pop_top
    /\ \E i \in NextIntensities :
       \E d \in {set_d_for_continuous(px.dlt, FInt(i))},
          a \in {set_d_for_continuous(px.abs, FInt(i))},
          m \in {set_d_for_continuous(px.mix, FInt(i))} :
          px' = [px EXCEPT !.dlt = d.pa, !.out_dlt = WithEvent(@, d),
                           !.abs = a.pa, !.out_abs = WithEvent(@, a),
                           !.mix = m.pa, !.out_mix = WithEvent(@, m),
                           !.calls = Append(@, Call("set_d_for_continuous", i)),
                           !.before = px.abs, !.before_out = px.out_abs]
    /\ UNCHANGED <<pm, ad, st, cm>>

PixelLitNext == PixelIntegrateLit \/ PixelSetD \/ PixelPopBest \/ PixelPopTop

SpecPixelLit == PixelInit /\ [][PixelLitNext]_vars

\* C35: after any sequence of integrate calls with intensities of 1 or more,
\* interleaved with pop_top_event, pop_best_events and set_d_for_continuous,
\* every live node satisfies integration < 2^d with d <= D_MAX, and neither
\* the assertion prop > 0 of integrate_main nor d <= D_MAX fails.
C35_IntegrationBelowThreshold ==
    /\ ~px.abs.panic
    /\ \A j \in 1 .. px.abs.length :
          /\ px.abs.arena[j].state.d <= D_MAX
          /\ ~FGeInt(px.abs.arena[j].state.integration, Pow2(px.abs.arena[j].state.d))

\* The calls made so far that integrate a sample spanning no time.
ZeroTimeCalls ==
    {k \in 1 .. Len(px.calls) :
        px.calls[k].op = "integrate" /\ LitSampleList[px.calls[k].sample][2] = 0}

\* The same, as long as every sample integrated spans time.
C35_BelowThresholdPositiveTimes ==
    ZeroTimeCalls = {} => C35_IntegrationBelowThreshold

\* A head has fired on a sample spanning no time, set_d_for_continuous has
\* lowered its d and left its integration, and the next sample has failed
\* the assertion prop > 0.
C35_PanicAfterZeroTime ==
    /\ px.abs.panic
    /\ Len(px.calls) = 3
    /\ 1 \in ZeroTimeCalls
    /\ px.calls[2].op = "set_d_for_continuous"
    /\ px.calls[3].op = "integrate"
    /\ FGeInt(px.before.arena[1].state.integration, Pow2(px.before.arena[1].state.d))

\* set_d_for_continuous has lowered the d of a head that had integrated, and
\* the pixel has integrated again since, with two live nodes.
C35_Witness ==
    /\ Len(px.calls) >= 3
    /\ px.calls[Len(px.calls) - 1].op = "set_d_for_continuous"
    /\ LastCall.op = "integrate"
    /\ px.out_dlt # <<>>
    /\ px.out_dlt[Len(px.out_dlt)].d = D_EMPTY
    /\ px.abs.length >= 2
    /\ FPos(px.abs.arena[1].state.integration)

\* set_d_for_continuous has raised the d of a head that holds integration.
HeadDRaised ==
    /\ LastCall.op = "set_d_for_continuous"
    /\ px.abs.arena[1].state.d > px.before.arena[1].state.d
    /\ FPos(px.abs.arena[1].state.integration)

\* A head that set_d_for_continuous has brought to D_MAX has integrated a
\* sample and has been popped.
HeadAtDMaxPopped ==
    /\ LastCall.op = "pop_top_event"
    /\ px.before.arena[1].state.d = D_MAX
    /\ FPos(px.before.arena[1].state.integration)

(***************************************************************************)
(* SpecSeek: a CompressedInput as CompressedInput::new builds it, whose    *)
(* metadata the decoder may overwrite through meta_mut with the values of  *)
(* a header, and on which set_input_stream_position is called.  st holds   *)
(* the metadata, the position of the reader in bits, the result of the     *)
(* last call, and the position asked for and the reader's position before  *)
(* that call.                                                              *)
(***************************************************************************)

\* CodecError::Seek
SeekError == [tag |-> "Seek", kind |-> ""]

\* The fields of the metadata set_input_stream_position reads, as
\* CompressedInput::new sets them and as CodecMetadata::default has them.
NewMeta == [header_size |-> 0, event_size |-> 0]
DefaultMeta == [header_size |-> 24, event_size |-> 9]

\* The metadata written through meta_mut.
MetaChoices == {NewMeta, DefaultMeta, [header_size |-> 24, event_size |-> 0],
                [header_size |-> 0, event_size |-> 9]}

\* Byte positions passed to set_input_stream_position.
PosChoices == {0, 3, 9, 10, 24, 33, 34, 40}

MaxSeeks == 3

\* pos.saturating_sub(header_size)
saturating_sub(a, b) == IF a >= b THEN a - b ELSE 0

\* CompressedInput::set_input_stream_position; seek_ok tells whether the
\* seek of the underlying reader succeeds.  The remainder by an event_size
\* of 0 panics.
set_input_stream_position(meta, reader, pos, seek_ok) ==
    IF meta.event_size = 0
    THEN [result |-> Panic, reader |-> reader]
    ELSE IF saturating_sub(pos, meta.header_size) % meta.event_size # 0
         THEN [result |-> SeekError, reader |-> reader]
         ELSE IF ~seek_ok
              THEN [result |-> SeekError, reader |-> reader]
              ELSE [result |-> Ok, reader |-> pos * 8]

SeekInit ==
    /\ st = [ meta |-> NewMeta, reader |-> 0, result |-> NoResult,
              pos |-> 0, before |-> 0, seeks |-> 0 ]
    /\ pm = PmIdle
    /\ ad = "off"
    /\ px = "off"
    /\ cm = "off"

\* *compressed_input.meta_mut() = meta
SeekMetaMut ==
    /\ st.result # Panic
    /\ \E meta \in MetaChoices : st' = [st EXCEPT !.meta = meta]
    /\ UNCHANGED <<pm, ad, px, cm>>

\* compressed_input.set_input_stream_position(&mut reader, pos)
SeekCall ==
    /\ st.result # Panic
    /\ st.seeks < MaxSeeks
    /\ \E pos \in PosChoices, seek_ok \in BOOLEAN :
       \E r \in {set_input_stream_position(st.meta, st.reader, pos, seek_ok)} :
          st' = [st EXCEPT !.result = r.result, !.reader = r.reader,
                           !.pos = pos, !.before = st.reader, !.seeks = @ + 1]
    /\ UNCHANGED <<pm, ad, px, cm>>

SeekNext == SeekMetaMut \/ SeekCall

SpecSeek == SeekInit /\ [][SeekNext]_vars

\* pos is at an event boundary: pos - header_size is a multiple of
\* event_size.
PosBound == 40

AtEventBoundary(meta, pos) ==
    \E k \in -PosBound .. PosBound : pos - meta.header_size = k * meta.event_size

\* C37: set_input_stream_position returns Err(Seek) for every position that
\* is not at an event boundary and then leaves the reader where it was, and
\* for every position and every CompressedInput, one built by
\* CompressedInput::new included, it returns Ok or Err(Seek) and does not
\* panic.
C37_SeekOrError ==
    [][ st'.seeks > st.seeks =>
          /\ st'.result \in {Ok, SeekError}
          /\ ~AtEventBoundary(st.meta, st'.pos) =>
                st'.result = SeekError /\ st'.reader = st.reader ]_vars

\* With an event_size above 0 and a position at or behind the header, the
\* call returns Ok or Err(Seek), Err(Seek) off the event boundaries with
\* the reader left where it was, and Ok moves the reader to the position.
SeekBehindHeader ==
    [][ (st'.seeks > st.seeks /\ st.meta.event_size > 0
            /\ st'.pos >= st.meta.header_size) =>
          /\ st'.result \in {Ok, SeekError}
          /\ ~AtEventBoundary(st.meta, st'.pos) =>
                st'.result = SeekError /\ st'.reader = st.reader
          /\ st'.result = Ok => st'.reader = st'.pos * 8 ]_vars

\* The first call on a CompressedInput as CompressedInput::new built it has
\* panicked.
SeekOnNewPanics ==
    /\ st.seeks = 1
    /\ st.meta = NewMeta
    /\ st.result = Panic

\* A position inside the header, not a multiple of event_size away from
\* its end, has been accepted.
SeekIntoHeader ==
    /\ st.meta = DefaultMeta
    /\ st.pos = 3
    /\ st.result = Ok
    /\ st.reader = 24

(***************************************************************************)
(* SpecWork: a pixel integrates samples and is emptied with                *)
(* pop_best_events, in Continuous or FramePerfect mode.  px holds the      *)
(* pixel (pa), the events the last pop_best_events returned (out), the     *)
(* integration of the last live node when that pop was made (carry), the   *)
(* sum of the intensities integrated since (sum), what carry and sum       *)
(* amounted to when the pop was made (owed), the carry that went into owed *)
(* (had), and whether every live node has stayed below D_MAX (below).      *)
(***************************************************************************)

\* The samples of make_tree and make_tree2, those of test_paper_example, and
\* a dark one.
WorkSamples == << <<100, 20>>, <<30, 34>>, <<101, 20>>, <<40, 30>>, <<140, 30>>, <<0, 30>> >>

WorkDtm == 10000

\* Calls of one run.
MaxWorkIntegrations == 4
MaxWorkPops == 2

BelowDMax(pa) == \A j \in 1 .. pa.length : pa.arena[j].state.d < D_MAX

WorkInit ==
    /\ pm = PmIdle
    /\ ad = "off"
    /\ st = "off"
    /\ cm = "off"
    /\ \E mode \in Modes :
          px = [ pa |-> PixelOf(DeltaT), mode |-> mode, out |-> <<>>,
                 carry |-> FZero, sum |-> 0, owed |-> FZero, had |-> FZero,
                 below |-> TRUE,
                 popped |-> FALSE, ints |-> 0, pops |-> 0 ]

\* integrate(intensity, time, mode, dtm, ref_time)
WorkIntegrate ==
    /\ ~px.pa.panic
    /\ px.ints < MaxWorkIntegrations
    /\ \E s \in 1 .. Len(WorkSamples) :
       \E pa \in {integrate(px.pa, FInt(WorkSamples[s][1]), FInt(WorkSamples[s][2]),
                            px.mode, WorkDtm, WorkSamples[s][2])} :
          px' = [px EXCEPT !.pa = pa, !.sum = @ + WorkSamples[s][1],
                           !.below = @ /\ BelowDMax(pa),
                           !.popped = FALSE, !.ints = @ + 1]
    /\ UNCHANGED <<pm, ad, st, cm>>

\* pop_best_events(&mut out, mode, ref_time) with an empty buffer.
WorkPopBest ==
    /\ ~px.pa.panic
    /\ px.pops < MaxWorkPops
    /\ \E r \in {pop_best_events(px.pa, <<>>, px.mode, PopRefTime)} :
          px' = [px EXCEPT !.pa = r.pa, !.out = r.buffer,
                           !.owed = FAdd(px.carry, FInt(px.sum)),
                           !.had = px.carry,
                           !.carry = px.pa.arena[px.pa.length].state.integration,
                           !.sum = 0,
                           !.popped = TRUE, !.pops = @ + 1]
    /\ UNCHANGED <<pm, ad, st, cm>>

WorkNext == WorkIntegrate \/ WorkPopBest

SpecWork == WorkInit /\ [][WorkNext]_vars

\* The events of a sequence that stand for intensity: those with d up to
\* D_MAX (a forced zero event has d = D_ZERO_INTEGRATION).
FiredEvents(out) == SelectSeq(out, LAMBDA e : e.d <= D_MAX)

\* The sum of 2^d over the events of a sequence.
RECURSIVE SumWork(_)
SumWork(out) == IF out = <<>> THEN 0 ELSE Pow2(Head(out).d) + SumWork(Tail(out))

\* The events returned by the pop and the integration of the new head
\* account for what the pixel held and has integrated since the pop before.
Conserved == FAdd(FInt(SumWork(FiredEvents(px.out))), px.pa.arena[1].state.integration) = px.owed

DarkPixelPopped ==
    /\ px.popped
    /\ px.mode = Continuous
    /\ Len(px.out) = 1
    /\ px.out[1].d = D_ZERO_INTEGRATION

\* In FramePerfect mode the returned events and the new head do not
\* account for the intensity integrated.
FramePerfectLosesIntensity ==
    /\ px.popped
    /\ px.mode = FramePerfect
    /\ px.below
    /\ ~Conserved

(***************************************************************************)
(* SpecDtm: a DeltaT pixel integrates samples that each span ref_time      *)
(* ticks, with a delta_t_max that is a multiple of ref_time, and is popped *)
(* (pop_top_event or pop_best_events) whenever integrate has set           *)
(* need_to_pop_top, before it integrates again.  px holds the pixel (pa),  *)
(* every event it has emitted (out) and the number of the calls.           *)
(***************************************************************************)

DtmRefTime == 20

\* delta_t_max: four reference intervals.
DtmOfRun == 4 * DtmRefTime

DtmIntensities == {0, 101, 140}

MaxDtmIntegrations == 7
MaxDtmPops == 2

DtmInit ==
    /\ pm = PmIdle
    /\ ad = "off"
    /\ st = "off"
    /\ cm = "off"
    /\ \E mode \in Modes :
          px = [ pa |-> PixelOf(DeltaT), mode |-> mode, out |-> <<>>,
                 ints |-> 0, pops |-> 0 ]

\* integrate(intensity, ref_time, mode, dtm, ref_time) on a pixel that does
\* not wait to be popped.
DtmIntegrate ==
    /\ ~px.pa.panic
    /\ ~px.pa.need_to_pop_top
    /\ px.ints < MaxDtmIntegrations
    /\ \E i \in DtmIntensities :
          px' = [px EXCEPT !.pa = integrate(@, FInt(i), FInt(DtmRefTime), px.mode,
                                            DtmOfRun, DtmRefTime),
                           !.ints = @ + 1]
    /\ UNCHANGED <<pm, ad, st, cm>>

\* out.push(pop_top_event(next_intensity, mode, ref_time)) when
\* need_to_pop_top is set.
DtmPopTop ==
    /\ ~px.pa.panic
    /\ px.pa.need_to_pop_top
    /\ px.pops < MaxDtmPops
    /\ \E r \in {pop_top_event(px.pa, FInt(StartIntensity), px.mode, DtmRefTime)} :
          px' = [px EXCEPT !.pa = r.pa, !.out = Append(@, r.event), !.pops = @ + 1]
    /\ UNCHANGED <<pm, ad, st, cm>>

\* pop_best_events(&mut out, mode, ref_time) when need_to_pop_top is set.
DtmPopBest ==
    /\ ~px.pa.panic
    /\ px.pa.need_to_pop_top
    /\ px.pops < MaxDtmPops
    /\ \E r \in {pop_best_events(px.pa, px.out, px.mode, DtmRefTime)} :
          px' = [px EXCEPT !.pa = r.pa, !.out = r.buffer, !.pops = @ + 1]
    /\ UNCHANGED <<pm, ad, st, cm>>

DtmNext == DtmIntegrate \/ DtmPopTop \/ DtmPopBest

SpecDtm == DtmInit /\ [][DtmNext]_vars

\* Every event emitted has a delta-t of at most dtm, and the head's delta-t
\* does not exceed dtm.
WithinDtm ==
    /\ \A k \in 1 .. Len(px.out) : px.out[k].delta_t <= DtmOfRun
    /\ ~FGtInt(px.pa.arena[1].state.delta_t, DtmOfRun)

\* C39: with dt = ref_time in every integrate call, dtm a multiple of
\* ref_time and the pixel popped whenever need_to_pop_top is set, every
\* event a DeltaT pixel emits has delta-t <= dtm and the head's delta-t
\* never exceeds dtm.
C39_DeltaTWithinDtm == ~px.pa.panic => WithinDtm

\* The same for FramePerfect integration, where the delta-t of every node
\* is a multiple of ref_time.
FramePerfectWithinDtm == (~px.pa.panic /\ px.mode = FramePerfect) => WithinDtm

\* In Continuous mode a pop has left a head whose delta-t is not a multiple
\* of ref_time, and the head has gone beyond dtm without need_to_pop_top
\* having been set before.
HeadBeyondDtm ==
    /\ px.mode = Continuous
    /\ px.pops >= 1
    /\ FGtInt(px.pa.arena[1].state.delta_t, DtmOfRun)
    /\ px.pa.arena[1].state.delta_t[2] > 1

\* An event with a delta-t above dtm has been emitted.
EventBeyondDtm ==
    /\ px.mode = Continuous
    /\ \E k \in 1 .. Len(px.out) : px.out[k].delta_t > DtmOfRun

\* In FramePerfect mode the head has reached dtm twice and has been popped
\* twice.
FramePerfectPoppedAtDtm ==
    /\ px.mode = FramePerfect
    /\ px.pops = 2
    /\ Len(px.out) >= 2
    /\ \E k \in 1 .. Len(px.out) : px.out[k].delta_t = DtmOfRun

(***************************************************************************)
(* SpecIngest: a CompressedOutput ingests events, and the compression of   *)
(* an ADU may fail.  st holds the output (co), the output as it was before *)
(* the last call (before), the event of that call, whether the call        *)
(* compressed the ADU and failed in it (failed), the result of the call    *)
(* (last) and the number of calls (n).                                     *)
(***************************************************************************)

\* The error adu.compress returns.
CompressFailed == [tag |-> "CompressFailed", kind |-> ""]

MaxIngests == 3

\* What a failed compress may leave of the ADU: the ADU as it was, or an
\* ADU whose events are gone.
LeftByFailedCompress(adu) == {adu, [adu EXCEPT !.events = <<>>]}

\* ingest_event_compress that writes the length of the data before it
\* looks at the result of compress.
ingest_event_compress_prefix_first(co, event, compress_ok, left) ==
    IF WindowExceeded(co.adu, event) /\ co.stream_some /\ ~compress_ok
    THEN [ co |-> [co EXCEPT !.adu = left,
                             !.out = @ \o RawBytes(u32_to_be_bytes(0))],
           result |-> CompressFailed ]
    ELSE [ co |-> ingest_event(co, event).co, result |-> Ok ]

\* CompressedOutput::ingest_event with the outcome of adu.compress as an
\* input: a failed compress leaves the function through ? before anything
\* is written and before the event is ingested.
ingest_event_compress(co, event, compress_ok, left) ==
    IF WindowExceeded(co.adu, event) /\ co.stream_some /\ ~compress_ok
    THEN [ co |-> [co EXCEPT !.adu = left], result |-> CompressFailed ]
    ELSE [ co |-> ingest_event(co, event).co, result |-> Ok ]

IngestInit ==
    /\ st = [ co |-> CompressedOutput_new(dt_ref, NumIntervals),
              before |-> CompressedOutput_new(dt_ref, NumIntervals),
              event |-> Event(0, 0, 0, 0), failed |-> FALSE,
              last |-> NoResult, n |-> 0 ]
    /\ pm = PmIdle
    /\ ad = "off"
    /\ px = "off"
    /\ cm = "off"

\* compressed_output.ingest_event(event)
IngestOrFail ==
    /\ st.n < MaxIngests
    /\ \E p \in Pixels, d \in DChoices, t \in TChoices(st.co.adu), compress_ok \in BOOLEAN :
       \E left \in LeftByFailedCompress(st.co.adu) :
       \E r \in {ingest_event_compress(st.co, Event(p[1], p[2], t, d), compress_ok, left)} :
          st' = [st EXCEPT
                   !.co = r.co, !.before = st.co, !.event = Event(p[1], p[2], t, d),
                   !.failed = WindowExceeded(st.co.adu, Event(p[1], p[2], t, d))
                                 /\ st.co.stream_some /\ ~compress_ok,
                   !.last = r.result, !.n = @ + 1]
    /\ UNCHANGED <<pm, ad, px, cm>>

\* compressed_output.into_writer()
IngestIntoWriter ==
    /\ st.co.stream_some
    /\ st' = [st EXCEPT !.co.stream_some = FALSE]
    /\ UNCHANGED <<pm, ad, px, cm>>

IngestNext == IngestOrFail \/ IngestIntoWriter

SpecIngest == IngestInit /\ [][IngestNext]_vars

\* C40: when the compression of the current ADU fails, ingest_event returns
\* that error, no byte has been written to the output stream (neither the
\* length nor data), and the event of the call has not been ingested into
\* the ADU.
C40_AtomicOnCompressFailure ==
    /\ st.failed =>
          /\ st.last = CompressFailed
          /\ st.co.out = st.before.out
          /\ Len(st.co.adu.events) <= Len(st.before.adu.events)
    /\ st.last = CompressFailed => st.failed

\* The compression of the second ADU has failed: the output holds the
\* frame of the first and nothing more, and the ADU holds the events it
\* held.
C40_Witness ==
    /\ st.failed
    /\ st.last = CompressFailed
    /\ st.n = 3
    /\ st.co.out # <<>>
    /\ st.co.out = st.before.out
    /\ st.co.adu.events # <<>>
    /\ st.co.adu.events = st.before.adu.events

\* After into_writer the ADU is not compressed any more: the event beyond
\* the window is ingested and the call returns Ok.
NoCompressWithoutStream ==
    /\ ~st.co.stream_some
    /\ st.last = Ok
    /\ st.n >= 1
    /\ WindowExceeded(st.before.adu, st.event)
    /\ ~st.before.stream_some
    /\ Len(st.co.adu.events) = Len(st.before.adu.events) + 1

====
